---- MODULE Spec2Model ----
(***************************************************************************)
(* Synchronisation core of the field-inspector backend: the versioned      *)
(* Inspection store, the idempotency ledger (SyncOperation), the conflict  *)
(* log (ConflictRecord), InspectionService, IdempotencyService, the direct *)
(* endpoints of InspectionViewSet and BatchSyncService.                    *)
(*                                                                         *)
(* The database is a PostgreSQL-style store at READ COMMITTED: every       *)
(* request runs in one transaction (transaction.atomic), sees committed    *)
(* rows plus its own writes, select_for_update takes a row lock held until *)
(* the transaction ends, and an INSERT of a unique key waits for an        *)
(* uncommitted INSERT of the same key by another transaction.  A cycle of  *)
(* waiting transactions is broken by the database: one waiting statement   *)
(* raises an error.                                                        *)
(***************************************************************************)
EXTENDS Integers, Sequences, FiniteSets, TLC

\* ---------------------------------------------------------------- bounds
NumProcs == 2
MaxReqs == 2
MaxOps == 3
MaxBatch == 3

InitVersions == {1}
Procs == 1..NumProcs
NoProc == 0
StoredIds == {"A", "B"}
FreshIds == {"N1"}
AllIds == StoredIds \cup FreshIds
NoId == "none"
Templates == {"T1"}
Users == {"u1", "u2"}
UserOf(p) == IF p = 1 THEN "u1" ELSE "u2"
NoUser == "nobody"
Keys == {"k1", "k2"}
NoKey == "nokey"
Absent == "absent"
NoVersion == -1
\* submitted_at: null, a time before the first request; a request's time is
\* its arrival number
NoTime == 0
Earlier == -1

\* BatchSyncRequestSerializer.validate_operations: the largest batch accepted
MaxOperations == 100

STATUS_CHOICES == {"draft", "submitted", "rejected", "approved"}
OperationChoices == {"CREATE_INSPECTION", "UPDATE_INSPECTION"}

\* ------------------------------------------------------------ row shapes
NoRow ==
    [version |-> 0, status |-> "none", facility_name |-> "none",
     facility_address |-> "none", responses |-> "none", template |-> "none",
     inspector |-> NoUser, submitted_at |-> NoTime, is_deleted |-> FALSE,
     deleted_by |-> NoUser, approved_by |-> NoUser]

InitRow(v, st) ==
    [version |-> v, status |-> st, facility_name |-> "n0",
     facility_address |-> "a0", responses |-> "r0", template |-> "T1",
     inspector |-> "u1", submitted_at |-> (IF st = "draft" THEN NoTime ELSE Earlier), is_deleted |-> FALSE,
     deleted_by |-> NoUser, approved_by |-> NoUser]

NoResult == [id |-> NoId, version |-> 0]

NoData ==
    [id |-> NoId, version |-> NoVersion, template_id |-> Absent,
     template |-> Absent, facility_name |-> Absent,
     facility_address |-> Absent, responses |-> Absent, status |-> Absent]

NoOp == [type |-> "none", key |-> NoKey, data |-> NoData]

NoReq ==
    [kind |-> "none", user |-> NoUser, id |-> NoId, key |-> NoKey,
     data |-> NoData, types |-> << >>, ops |-> << >>]

EmptyTx ==
    [insp |-> [i \in AllIds |-> NoRow], ledger |-> << >>, conf |-> << >>,
     muts |-> << >>]

\* ------------------------------------------------------------ the inputs
Fields1 == [NoData EXCEPT !.facility_name = "n1", !.facility_address = "a1",
                          !.responses = "r1"]
Fields2 == [NoData EXCEPT !.facility_name = "n2", !.facility_address = "a2",
                          !.responses = "r2", !.status = "submitted"]
Fields3 == [Fields1 EXCEPT !.status = "approved"]

WithKeys(K, D) == {[key |-> k, data |-> d] : k \in K, d \in D}

ValidUpdates(ids, vs, fs) ==
    {[f EXCEPT !.id = i, !.version = v] : f \in fs, i \in ids, v \in vs}

\* one update of each malformed shape the serializer or process_operation
\* rejects: version 0, no version, no id, unknown id, a required field missing
MalformedUpdates ==
    {[Fields1 EXCEPT !.id = "A", !.version = 0],
     [Fields1 EXCEPT !.id = "A"],
     [Fields1 EXCEPT !.version = 1],
     [Fields1 EXCEPT !.id = "N1", !.version = 1],
     [Fields1 EXCEPT !.id = "A", !.version = 1, !.facility_address = Absent],
     [Fields1 EXCEPT !.id = "A", !.version = 1, !.status = "archived"]}

CreateData ==
    {[Fields1 EXCEPT !.template_id = "T1"],
     [Fields2 EXCEPT !.template_id = "T1", !.version = 2],
     [Fields1 EXCEPT !.template_id = "T0"],
     [Fields1 EXCEPT !.template_id = "T1", !.responses = Absent],
     [Fields1 EXCEPT !.template_id = "T1", !.id = "A"]}

\* the operations clients send in the sequential scenarios
SeqUpdateOps ==
    WithKeys(Keys, ValidUpdates(StoredIds, {1, 2}, {Fields1, Fields2}))
    \cup WithKeys({"k1"}, ValidUpdates({"A"}, {1, 2}, {Fields3}))
    \cup WithKeys({"k1"}, MalformedUpdates)
SeqCreateOps == WithKeys({"k1"}, CreateData)

\* the operations clients send in the concurrent scenarios
ConcUpdateOps ==
    WithKeys(Keys, ValidUpdates({"A"}, {1}, {Fields1, Fields2})
                   \cup ValidUpdates({"A"}, {2}, {Fields1})
                   \cup ValidUpdates({"B"}, {1}, {Fields1}))
    \cup WithKeys({"k1"}, {[Fields1 EXCEPT !.version = 1]})
ConcCreateOps == WithKeys({"k1"}, {[Fields1 EXCEPT !.template_id = "T1"]})

\* a direct request may come without an Idempotency-Key header
Unkeyed(ops) == {[o EXCEPT !.key = NoKey] : o \in ops}

VARIABLES
    inspections,   \* committed Inspection rows, by id (NoRow: no such row)
    ledger,        \* committed SyncOperation rows, in commit order
    conflicts,     \* committed ConflictRecord rows, in commit order
    lock,          \* row lock of each inspection: the holder, or NoProc
    pc,            \* where each request handler stands
    req,           \* the request each handler serves (ops: the items taken so far)
    op,            \* the batch item being processed
    tx,            \* each transaction's uncommitted writes (muts: history of
                   \* the mutations applied, each with its operation's key)
    results,       \* the response built so far (batch: one entry per item)
    nreq,          \* requests started so far
    nops,          \* operations (batch items, direct requests) admitted so far
    startInsp,     \* history: the committed inspections when the request arrived
    startLedger,   \* history: the committed ledger when the request arrived
    startTick,     \* history: arrival order of the request
    endTick,       \* history: nreq when the request finished (0: running)
    effects        \* history: the writes the finished request committed

vars ==
    <<inspections, ledger, conflicts, lock, pc, req, op, tx, results, nreq,
      nops, startInsp, startLedger, startTick, endTick, effects>>


\* ------------------------------------------------- serializers (pure)
Has(data, f) == data[f] # Absent

\* the status field without its choices
UpdateValid_AnyStatus(data) ==
    /\ Has(data, "facility_name")
    /\ Has(data, "facility_address")
    /\ Has(data, "responses")
    /\ data.version # 0

\* UpdateInspectionSerializer: a ModelSerializer over facility_name,
\* facility_address, responses (model fields with no default: required),
\* status (choices) and version (has a default: optional); validate_version
\* runs only on a version that is present and rejects a falsy one.
UpdateValid(data) ==
    /\ Has(data, "facility_name")
    /\ Has(data, "facility_address")
    /\ Has(data, "responses")
    /\ (Has(data, "status") => data.status \in STATUS_CHOICES)
    /\ data.version # 0

\* validated_data.get("version"): None when the field is absent
ValidatedVersion(data) == data.version

\* CreateInspectionSerializer: template_id is a PrimaryKeyRelatedField with
\* source="template"; the validated value is stored under the source name.
CreateValid(data) ==
    /\ data.template_id \in Templates
    /\ Has(data, "facility_name")
    /\ Has(data, "facility_address")
    /\ Has(data, "responses")
    /\ (Has(data, "status") => data.status \in STATUS_CHOICES)

CreateValidated(data) ==
    [data EXCEPT !.template = data.template_id, !.template_id = Absent,
                 !.id = NoId]

\* BatchSyncOperationSerializer.operation_type is a ChoiceField
BatchValid(types) == \A j \in 1..Len(types) : types[j] \in OperationChoices

\* a batch one operation too large is one too many
validate_operations_Strict(value) == Len(value) < MaxOperations

\* BatchSyncRequestSerializer.validate_operations
validate_operations(value) == Len(value) <= MaxOperations

\* ------------------------------------------------- the store (pure)
\* the default manager without its filter
Live_Unfiltered(row) == row # NoRow

\* the rows the default manager (InspectionManager) returns
Live(row) == row # NoRow /\ ~row.is_deleted

\* a read that misses the transaction's own writes
Vis_CommittedOnly(p, i) == inspections[i]

\* what transaction p reads: its own writes over the committed rows
Vis(p, i) == IF tx[p].insp[i] # NoRow THEN tx[p].insp[i] ELSE inspections[i]

LedgerVis(p) == ledger \o tx[p].ledger

HasKey(rows, k) == \E j \in 1..Len(rows) : rows[j].idempotency_key = k

RowOfKey(rows, k) ==
    rows[CHOOSE j \in 1..Len(rows) :
            /\ rows[j].idempotency_key = k
            /\ \A h \in 1..(j - 1) : rows[h].idempotency_key # k]

\* IdempotencyService.get_result
get_result(p, k) ==
    IF HasKey(LedgerVis(p), k) THEN RowOfKey(LedgerVis(p), k).result
    ELSE NoResult

\* the truth value Python gives the cached result
Truthy(result) == result # NoResult

\* the other transaction holding an uncommitted row with key k (the unique
\* index makes an INSERT of k wait for it), or NoProc
KeyHolder(p, k) ==
    IF \E q \in Procs \ {p} : HasKey(tx[q].ledger, k)
    THEN CHOOSE q \in Procs \ {p} : HasKey(tx[q].ledger, k)
    ELSE NoProc

SyncOperationRow(k, type, entity, user, result) ==
    [idempotency_key |-> k, operation_type |-> type, entity_id |-> entity,
     user |-> user, result |-> result]

\* a plain INSERT where no unique index is in the way
record_Insert(p, k, type, entity, user, result) ==
    Append(tx[p].ledger, SyncOperationRow(k, type, entity, user, result))

\* IdempotencyService.record, on the transaction's ledger writes:
\* get_or_create inserts only when no row with the key is visible
record(p, k, type, entity, user, result) ==
    IF HasKey(LedgerVis(p), k) THEN tx[p].ledger
    ELSE Append(tx[p].ledger, SyncOperationRow(k, type, entity, user, result))

\* what record() returns: the stored result (both callers drop it)
recordReturn(p, k, result) ==
    IF HasKey(LedgerVis(p), k) THEN RowOfKey(LedgerVis(p), k).result
    ELSE result

\* ------------------------------------------------- InspectionService (pure)
\* a patch without status puts the inspection back to draft
ApplyUpdate_StatusReset(row, data, now) ==
    [row EXCEPT
        !.facility_name = IF Has(data, "facility_name")
                          THEN data.facility_name ELSE @,
        !.facility_address = IF Has(data, "facility_address")
                             THEN data.facility_address ELSE @,
        !.responses = IF Has(data, "responses") THEN data.responses ELSE @,
        !.submitted_at = IF Has(data, "status") /\ data.status = "submitted"
                            /\ row.status = "draft"
                         THEN now ELSE @,
        !.status = IF Has(data, "status") THEN data.status ELSE "draft",
        !.version = @ + 1]

\* submitted_at stamped whenever the patch says submitted
ApplyUpdate_Restamps(row, data, now) ==
    [row EXCEPT
        !.facility_name = IF Has(data, "facility_name")
                          THEN data.facility_name ELSE @,
        !.facility_address = IF Has(data, "facility_address")
                             THEN data.facility_address ELSE @,
        !.responses = IF Has(data, "responses") THEN data.responses ELSE @,
        !.submitted_at = IF Has(data, "status") /\ data.status = "submitted"
                         THEN now ELSE @,
        !.status = IF Has(data, "status") THEN data.status ELSE @,
        !.version = @ + 1]

\* the assignments of update_inspection after the version check, at time now
ApplyUpdate(row, data, now) ==
    [row EXCEPT
        !.facility_name = IF Has(data, "facility_name")
                          THEN data.facility_name ELSE @,
        !.facility_address = IF Has(data, "facility_address")
                             THEN data.facility_address ELSE @,
        !.responses = IF Has(data, "responses") THEN data.responses ELSE @,
        !.submitted_at = IF Has(data, "status") /\ data.status = "submitted"
                            /\ row.status = "draft"
                         THEN now ELSE @,
        !.status = IF Has(data, "status") THEN data.status ELSE @,
        !.version = @ + 1]

\* the row fetched whether or not it exists or is soft-deleted
update_inspection_AnyRow(row, data, client_version, now) ==
    IF row.version # client_version
    THEN [out |-> "ConflictError", row |-> row]
    ELSE [out |-> "ok", row |-> ApplyUpdate(row, data, now)]

\* InspectionService.update_inspection on the row read under the lock
update_inspection(row, data, client_version, now) ==
    IF ~Live(row) THEN [out |-> "DoesNotExist", row |-> NoRow]
    ELSE IF row.version # client_version
    THEN [out |-> "ConflictError", row |-> row]
    ELSE [out |-> "ok", row |-> ApplyUpdate(row, data, now)]

FreeIds ==
    {i \in FreshIds :
        inspections[i] = NoRow /\ \A q \in Procs : tx[q].insp[i] = NoRow}

\* InspectionService.create_inspection: reads template_id, id and the fields
\* from the dict it is given
create_inspection(data, user) ==
    LET template_id == data.template_id
    IN  IF template_id \notin Templates
        THEN [out |-> "ValidationError", id |-> NoId, row |-> NoRow]
        ELSE LET i == IF data.id # NoId THEN data.id
                      ELSE CHOOSE f \in FreeIds : TRUE
             IN  [out |-> "ok", id |-> i,
                  row |-> [version |-> 1,
                           status |-> IF Has(data, "status") THEN data.status
                                      ELSE "draft",
                           facility_name |-> data.facility_name,
                           facility_address |-> data.facility_address,
                           responses |-> data.responses,
                           template |-> template_id,
                           inspector |-> user,
                           submitted_at |-> NoTime,
                           is_deleted |-> FALSE,
                           deleted_by |-> NoUser,
                           approved_by |-> NoUser]]

\* ------------------------------------------------- responses
Entry(pos, tag, code, k, type) ==
    [pos |-> pos, tag |-> tag, code |-> code, key |-> k, type |-> type,
     id |-> NoId, version |-> 0, client_version |-> NoVersion,
     server_version |-> 0, server_data |-> NoRow, error |-> "none"]

SuccessEntry(pos, code, k, type, result) ==
    [Entry(pos, "success", code, k, type) EXCEPT
        !.id = result.id, !.version = result.version]

\* the client's version reported as the server's
ConflictEntry_Swapped(pos, code, k, type, i, cv, row) ==
    [Entry(pos, "conflict", code, k, type) EXCEPT
        !.id = i, !.client_version = cv, !.server_version = cv,
        !.server_data = row]

ConflictEntry(pos, code, k, type, i, cv, row) ==
    [Entry(pos, "conflict", code, k, type) EXCEPT
        !.id = i, !.client_version = cv, !.server_version = row.version,
        !.server_data = row]

ErrorEntry(pos, code, k, type, err) ==
    [Entry(pos, "error", code, k, type) EXCEPT !.error = err]

ConflictRecordRow(i, cv, row, data) ==
    [inspection |-> i, client_version_number |-> cv,
     server_version_number |-> row.version, client_data |-> data,
     server_data |-> row]


\* ------------------------------------------------- transactions
Init ==
    /\ inspections \in
          {[i \in AllIds |->
              IF i = "A" THEN InitRow(v, "draft")
              ELSE IF i = "B" THEN InitRow(1, "draft") ELSE NoRow] :
           v \in InitVersions}
    /\ ledger = << >>
    /\ conflicts = << >>
    /\ lock = [i \in AllIds |-> NoProc]
    /\ pc = [p \in Procs |-> "idle"]
    /\ req = [p \in Procs |-> NoReq]
    /\ op = [p \in Procs |-> NoOp]
    /\ tx = [p \in Procs |-> EmptyTx]
    /\ results = [p \in Procs |-> << >>]
    /\ nreq = 0
    /\ nops = 0
    /\ startInsp = [p \in Procs |-> inspections]
    /\ startLedger = [p \in Procs |-> << >>]
    /\ startTick = [p \in Procs |-> 0]
    /\ endTick = [p \in Procs |-> 0]
    /\ effects = [p \in Procs |-> EmptyTx]

Release(p) == [i \in AllIds |-> IF lock[i] = p THEN NoProc ELSE lock[i]]

\* a request arrives at handler p
Arrive(p, r, o, at, n) ==
    /\ pc[p] \in {"idle", "done"}
    /\ nreq < MaxReqs
    /\ nops + n <= MaxOps
    /\ nops' = nops + n
    /\ pc' = [pc EXCEPT ![p] = at]
    /\ req' = [req EXCEPT ![p] = r]
    /\ op' = [op EXCEPT ![p] = o]
    /\ results' = [results EXCEPT ![p] = << >>]
    /\ nreq' = nreq + 1
    /\ startInsp' = [startInsp EXCEPT ![p] = inspections]
    /\ startLedger' = [startLedger EXCEPT ![p] = ledger]
    /\ startTick' = [startTick EXCEPT ![p] = nreq + 1]
    /\ endTick' = [endTick EXCEPT ![p] = 0]
    /\ effects' = [effects EXCEPT ![p] = EmptyTx]
    /\ UNCHANGED <<inspections, ledger, conflicts, lock, tx>>

\* the transaction's writes reach the store although it did not commit
Rollback_KeepsWrites(p, entries) ==
    /\ pc' = [pc EXCEPT ![p] = "done"]
    /\ results' = [results EXCEPT ![p] = entries]
    /\ inspections' = [i \in AllIds |-> Vis(p, i)]
    /\ ledger' = ledger \o tx[p].ledger
    /\ conflicts' = conflicts \o tx[p].conf
    /\ tx' = [tx EXCEPT ![p] = EmptyTx]
    /\ lock' = Release(p)
    /\ endTick' = [endTick EXCEPT ![p] = nreq]
    /\ op' = [op EXCEPT ![p] = NoOp]
    /\ UNCHANGED <<req, nreq, nops, startInsp, startLedger, startTick, effects>>

\* the handler returns with nothing to commit, or an exception leaves the
\* outermost atomic block: the transaction's writes are dropped, its locks freed
Rollback(p, entries) ==
    /\ pc' = [pc EXCEPT ![p] = "done"]
    /\ results' = [results EXCEPT ![p] = entries]
    /\ tx' = [tx EXCEPT ![p] = EmptyTx]
    /\ lock' = Release(p)
    /\ endTick' = [endTick EXCEPT ![p] = nreq]
    /\ op' = [op EXCEPT ![p] = NoOp]
    /\ UNCHANGED <<inspections, ledger, conflicts, req, nreq, nops, startInsp,
                   startLedger, startTick, effects>>

\* the outermost atomic block exits normally: the writes become visible
Commit(p) ==
    /\ pc[p] = "commit"
    /\ inspections' = [i \in AllIds |-> Vis(p, i)]
    /\ ledger' = ledger \o tx[p].ledger
    /\ conflicts' = conflicts \o tx[p].conf
    /\ lock' = Release(p)
    /\ effects' = [effects EXCEPT ![p] = tx[p]]
    /\ tx' = [tx EXCEPT ![p] = EmptyTx]
    /\ pc' = [pc EXCEPT ![p] = "done"]
    /\ endTick' = [endTick EXCEPT ![p] = nreq]
    /\ op' = [op EXCEPT ![p] = NoOp]
    /\ UNCHANGED <<req, results, nreq, nops, startInsp, startLedger, startTick>>

\* the handler goes on inside its transaction
Continue(p, at, o, t, entries, l) ==
    /\ pc' = [pc EXCEPT ![p] = at]
    /\ op' = [op EXCEPT ![p] = o]
    /\ tx' = [tx EXCEPT ![p] = t]
    /\ results' = [results EXCEPT ![p] = entries]
    /\ lock' = l
    /\ UNCHANGED <<inspections, ledger, conflicts, nreq, nops, startInsp,
                   startLedger, startTick, endTick, effects>>

Mutation(k, i, row) == [key |-> k, id |-> i, version |-> row.version]

\* the conflict recorded in the ledger with the server's state as result
ConflictWrites_Recorded(t, o, user, i, cv, row, data) ==
    [t EXCEPT !.conf = Append(@, ConflictRecordRow(i, cv, row, data)),
              !.ledger = Append(@, SyncOperationRow(o.key, o.type, i, user,
                                   [id |-> i, version |-> row.version]))]

\* what the handlers of ConflictError write: one ConflictRecord, nothing else
ConflictWrites_Dropped(t, o, user, i, cv, row, data) == t

ConflictWrites(t, o, user, i, cv, row, data) ==
    [t EXCEPT !.conf = Append(@, ConflictRecordRow(i, cv, row, data))]

\* select_for_update: the row lock is taken when free (or already held)
Locked_Free(p, i) == lock
Locked(p, i) == [lock EXCEPT ![i] = p]
\* the row read without select_for_update
CanLock_Unlocked(p, i) == TRUE
CanLock(p, i) == lock[i] \in {NoProc, p}

\* the ledger INSERT of key k by p need not wait
CanRecord(p, k) == HasKey(LedgerVis(p), k) \/ KeyHolder(p, k) = NoProc

\* the result built from a version the row has not reached
ResultOf_Ahead(p, i) == [id |-> i, version |-> Vis(p, i).version + 1]

\* result = {"id": str(inspection.id), "version": inspection.version}
ResultOf(p, i) == [id |-> i, version |-> Vis(p, i).version]

\* ------------------------------------------------- InspectionViewSet.update
StartUpdate(p, ops) ==
    \E o \in {x \in ops \cup Unkeyed(ops) : x.data.id # NoId} :
        Arrive(p, [NoReq EXCEPT !.kind = "update", !.user = UserOf(p),
                                !.id = o.data.id, !.key = o.key, !.data = o.data,
                                !.ops = <<o>>],
               [type |-> "UPDATE_INSPECTION", key |-> o.key, data |-> o.data],
               "u_get", 1)

\* get_object, the serializer, the idempotency check and update_inspection
UGet(p) ==
    /\ pc[p] = "u_get"
    /\ UNCHANGED req
    /\ LET r == req[p]
           i == r.id
           t == "UPDATE_INSPECTION"
       IN  IF ~Live(Vis(p, i))
           THEN Rollback(p, <<ErrorEntry("http", 500, r.key, t, "DoesNotExist")>>)
           ELSE /\ CanLock(p, i)
                /\ IF ~UpdateValid(r.data)
                   THEN Rollback(p, <<ErrorEntry("http", 400, r.key, t, "validation")>>)
                   ELSE IF r.key # NoKey /\ Truthy(get_result(p, r.key))
                   THEN Rollback(p, <<SuccessEntry("http", 200, r.key, t,
                                                   get_result(p, r.key))>>)
                   ELSE LET cv == ValidatedVersion(r.data)
                            o == update_inspection(Vis(p, i), r.data, cv, startTick[p])
                        IN  IF o.out = "ConflictError"
                            THEN Continue(p, "commit", op[p],
                                   ConflictWrites(tx[p], op[p], r.user, i, cv,
                                                  o.row, r.data),
                                   <<ConflictEntry("http", 409, r.key, t, i, cv, o.row)>>,
                                   Locked(p, i))
                            ELSE Continue(p,
                                   IF r.key # NoKey THEN "u_record" ELSE "commit",
                                   op[p],
                                   [tx[p] EXCEPT !.insp[i] = o.row,
                                       !.muts = Append(@, Mutation(r.key, i, o.row))],
                                   IF r.key # NoKey THEN << >>
                                   ELSE <<SuccessEntry("http", 200, r.key, t,
                                             [id |-> i, version |-> o.row.version])>>,
                                   Locked(p, i))

\* IdempotencyService.record called by the view, whose return value is dropped
URecord(p) ==
    /\ pc[p] = "u_record"
    /\ UNCHANGED req
    /\ LET r == req[p]
           result == ResultOf(p, r.id)
       IN  /\ CanRecord(p, r.key)
           /\ Continue(p, "commit", op[p],
                [tx[p] EXCEPT !.ledger = record(p, r.key, "UPDATE_INSPECTION",
                                                r.id, r.user, result)],
                <<SuccessEntry("http", 200, r.key, "UPDATE_INSPECTION", result)>>,
                lock)

\* ------------------------------------------------- InspectionViewSet.create
StartCreate(p, ops) ==
    \E o \in ops \cup Unkeyed(ops) :
        Arrive(p, [NoReq EXCEPT !.kind = "create", !.user = UserOf(p),
                                !.key = o.key, !.data = o.data, !.ops = <<o>>],
               [type |-> "CREATE_INSPECTION", key |-> o.key, data |-> o.data],
               "c_run", 1)

CRun(p) ==
    /\ pc[p] = "c_run"
    /\ UNCHANGED req
    /\ LET r == req[p]
           t == "CREATE_INSPECTION"
       IN  IF ~CreateValid(r.data)
           THEN Rollback(p, <<ErrorEntry("http", 400, r.key, t, "validation")>>)
           ELSE IF r.key # NoKey /\ Truthy(get_result(p, r.key))
           THEN Rollback(p, <<SuccessEntry("http", 200, r.key, t,
                                           get_result(p, r.key))>>)
           ELSE IF create_inspection(CreateValidated(r.data), r.user).out
                     = "ValidationError"
           THEN Rollback(p, <<ErrorEntry("http", 400, r.key, t,
                                         "template_not_found")>>)
           ELSE /\ FreeIds # {}
                /\ LET o == create_inspection(CreateValidated(r.data), r.user)
                   IN  Continue(p,
                          IF r.key # NoKey THEN "c_record" ELSE "commit",
                          [op[p] EXCEPT !.data.id = o.id],
                          [tx[p] EXCEPT !.insp[o.id] = o.row,
                              !.muts = Append(@, Mutation(r.key, o.id, o.row))],
                          IF r.key # NoKey THEN << >>
                          ELSE <<SuccessEntry("http", 201, r.key, t,
                                    [id |-> o.id, version |-> o.row.version])>>,
                          lock)

\* the ledger write after a successful create.  No behaviour reaches it:
\* create_inspection never returns for validated data (it looks up
\* "template_id", which the serializer has moved to "template").
CRecord(p) ==
    /\ pc[p] = "c_record"
    /\ UNCHANGED req
    /\ LET r == req[p]
           i == op[p].data.id
           result == ResultOf(p, i)
       IN  /\ CanRecord(p, r.key)
           /\ Continue(p, "commit", op[p],
                [tx[p] EXCEPT !.ledger = record(p, r.key, "CREATE_INSPECTION",
                                                i, r.user, result)],
                <<SuccessEntry("http", 201, r.key, "CREATE_INSPECTION", result)>>,
                lock)

\* ------------------------------------------------- InspectionViewSet.destroy
soft_delete_Anonymous(row, user) == [row EXCEPT !.is_deleted = TRUE]

\* Inspection.soft_delete: saves is_deleted, deleted_at and deleted_by only
soft_delete(row, user) ==
    [row EXCEPT !.is_deleted = TRUE, !.deleted_by = user]

Destroy(p) ==
    \E i \in StoredIds :
        LET row == inspections[i]
            u == UserOf(p)
            r == [NoReq EXCEPT !.kind = "destroy", !.user = u, !.id = i]
            can == Live(row) /\ row.status = "draft"
        IN  /\ pc[p] \in {"idle", "done"}
            /\ nreq < MaxReqs
            /\ nops + 1 <= MaxOps
            /\ nops' = nops + 1
            /\ Live(row) => lock[i] = NoProc
            /\ inspections' =
                  IF can
                  THEN [inspections EXCEPT ![i] = soft_delete(row, u)]
                  ELSE inspections
            /\ results' = [results EXCEPT ![p] =
                  IF can THEN <<SuccessEntry("http", 204, NoKey, "DELETE",
                                             [id |-> i, version |-> row.version])>>
                  ELSE IF Live(row)
                  THEN <<ErrorEntry("http", 400, NoKey, "DELETE", "not_draft")>>
                  ELSE <<ErrorEntry("http", 500, NoKey, "DELETE", "DoesNotExist")>>]
            /\ pc' = [pc EXCEPT ![p] = "done"]
            /\ req' = [req EXCEPT ![p] = r]
            /\ op' = [op EXCEPT ![p] = NoOp]
            /\ nreq' = nreq + 1
            /\ startInsp' = [startInsp EXCEPT ![p] = inspections]
            /\ startLedger' = [startLedger EXCEPT ![p] = ledger]
            /\ startTick' = [startTick EXCEPT ![p] = nreq + 1]
            /\ endTick' = [endTick EXCEPT ![p] = nreq + 1]
            /\ effects' = [effects EXCEPT ![p] =
                  IF can THEN [EmptyTx EXCEPT !.insp[i] = inspections'[i],
                                  !.muts = <<Mutation(NoKey, i, inspections'[i])>>]
                  ELSE EmptyTx]
            /\ UNCHANGED <<ledger, conflicts, lock, tx>>

\* ------------------------------------------------- approve / reject
\* Inspection.increment_version on an instance whose stored row is stored:
\* save(update_fields=["version"]) writes version = version + 1 and no other
\* column, and refresh_from_db then reloads the instance from the row
increment_version(instance, stored) == [stored EXCEPT !.version = @ + 1]

\* whether the database backend has SELECT ... FOR UPDATE.  approve and
\* reject call get_object outside any transaction: a backend that has row
\* locks refuses the query there, one that has none runs it as a plain read
HasSelectForUpdate == {TRUE, FALSE}

\* InspectionViewSet.approve and reject (verdict: the status assigned to the
\* instance)
Decide(p, kind, verdict) ==
    \E i \in StoredIds :
        \E locks \in HasSelectForUpdate :
            LET row == inspections[i]
                u == UserOf(p)
                r == [NoReq EXCEPT !.kind = kind, !.user = u, !.id = i]
                can == ~locks /\ Live(row) /\ row.status = "submitted"
                instance == [row EXCEPT !.status = verdict, !.approved_by = u]
                after == increment_version(instance, row)
            IN  /\ pc[p] \in {"idle", "done"}
                /\ nreq < MaxReqs
                /\ nops + 1 <= MaxOps
                /\ nops' = nops + 1
                /\ Live(row) => lock[i] = NoProc
                /\ inspections' =
                      IF can THEN [inspections EXCEPT ![i] = after]
                      ELSE inspections
                /\ results' = [results EXCEPT ![p] =
                      IF locks
                      THEN <<ErrorEntry("http", 500, NoKey, kind,
                                        "TransactionManagementError")>>
                      ELSE IF ~Live(row)
                      THEN <<ErrorEntry("http", 500, NoKey, kind, "DoesNotExist")>>
                      ELSE IF row.status # "submitted"
                      THEN <<ErrorEntry("http", 400, NoKey, kind, "not_submitted")>>
                      ELSE <<SuccessEntry("http", 200, NoKey, kind,
                                [id |-> i, version |-> after.version])>>]
                /\ pc' = [pc EXCEPT ![p] = "done"]
                /\ req' = [req EXCEPT ![p] = r]
                /\ op' = [op EXCEPT ![p] = NoOp]
                /\ nreq' = nreq + 1
                /\ startInsp' = [startInsp EXCEPT ![p] = inspections]
                /\ startLedger' = [startLedger EXCEPT ![p] = ledger]
                /\ startTick' = [startTick EXCEPT ![p] = nreq + 1]
                /\ endTick' = [endTick EXCEPT ![p] = nreq + 1]
                /\ effects' = [effects EXCEPT ![p] =
                      IF can THEN [EmptyTx EXCEPT !.insp[i] = after,
                                      !.muts = <<Mutation(NoKey, i, after)>>]
                      ELSE EmptyTx]
                /\ UNCHANGED <<ledger, conflicts, lock, tx>>

Approve(p) == Decide(p, "approve", "approved")
Reject(p) == Decide(p, "reject", "rejected")

\* ------------------------------------------------- BatchSyncService
StartBatch(p) ==
    \E n \in 1..MaxBatch :
        \E types \in [1..n -> OperationChoices \cup {"DELETE_INSPECTION"}] :
            /\ BatchValid(types)
            /\ validate_operations(types)
            /\ Arrive(p, [NoReq EXCEPT !.kind = "batch", !.user = UserOf(p),
                                       !.types = types],
                      NoOp, "b_item", n)

\* batch_sync: BatchSyncRequestSerializer rejects the request as a whole
RejectBatch(p) ==
    \E n \in 1..MaxBatch :
        \E types \in {[j \in 1..n |-> IF j = n THEN "DELETE_INSPECTION"
                                      ELSE "UPDATE_INSPECTION"]} :
            /\ ~BatchValid(types)
            /\ Arrive(p, [NoReq EXCEPT !.kind = "batch", !.user = UserOf(p),
                                       !.types = types],
                      NoOp, "b_reject", n)

BReject(p) ==
    /\ pc[p] = "b_reject"
    /\ Rollback(p, <<ErrorEntry("http", 400, NoKey, "batch", "validation")>>)

\* the loop left after the first item
NextPc_Return(p) == "commit"

\* where process_batch goes after an item: the next one, or the end
NextPc(p) ==
    IF Len(results[p]) + 1 = Len(req[p].types) THEN "commit" ELSE "b_item"

\* process_batch takes the next operation; process_operation checks the ledger
BItem(p, uops, cops) ==
    /\ pc[p] = "b_item"
    /\ LET t == req[p].types[Len(results[p]) + 1]
       IN  \E o \in IF t = "CREATE_INSPECTION" THEN cops ELSE uops :
             /\ req' = [req EXCEPT ![p].ops = Append(@, o)]
             /\ IF Truthy(get_result(p, o.key))
                THEN Continue(p, NextPc(p), NoOp, tx[p],
                        Append(results[p],
                               SuccessEntry("index", 0, o.key, t,
                                            get_result(p, o.key))),
                        lock)
                ELSE Continue(p, "b_mutate",
                              [type |-> t, key |-> o.key, data |-> o.data],
                              tx[p], results[p], lock)

\* the inspection an UPDATE item must lock, or NoId when it fails before
UpdateTarget(p, data) ==
    IF /\ UpdateValid(data)
       /\ data.id # NoId
       /\ ValidatedVersion(data) # NoVersion
       /\ Live(Vis(p, data.id))
    THEN data.id ELSE NoId

\* process_operation without its checks of the id and the version
process_operation_Unchecked(p, o, user) ==
    IF o.type = "UPDATE_INSPECTION" /\ UpdateValid(o.data)
       /\ o.data.id \in AllIds
    THEN LET u == update_inspection(Vis(p, o.data.id), o.data,
                                    ValidatedVersion(o.data), startTick[p])
         IN  IF u.out = "DoesNotExist"
             THEN [out |-> "error", err |-> "DoesNotExist", id |-> NoId,
                   row |-> NoRow]
             ELSE IF u.out = "ConflictError"
             THEN [out |-> "conflict", err |-> "none", id |-> o.data.id,
                   row |-> u.row]
             ELSE [out |-> "ok", err |-> "none", id |-> o.data.id, row |-> u.row]
    ELSE [out |-> "error", err |-> "validation", id |-> NoId, row |-> NoRow]

\* process_operation after the ledger check, up to the ledger write:
\* the outcome of the serializer and of InspectionService
process_operation(p, o, user) ==
    IF o.type = "CREATE_INSPECTION"
    THEN IF ~CreateValid(o.data)
         THEN [out |-> "error", err |-> "validation", id |-> NoId, row |-> NoRow]
         ELSE LET c == create_inspection(CreateValidated(o.data), user)
              IN  IF c.out = "ValidationError"
                  THEN [out |-> "error", err |-> "template_not_found",
                        id |-> NoId, row |-> NoRow]
                  ELSE [out |-> "ok", err |-> "none", id |-> c.id, row |-> c.row]
    ELSE IF o.type = "UPDATE_INSPECTION"
    THEN IF ~UpdateValid(o.data)
         THEN [out |-> "error", err |-> "validation", id |-> NoId, row |-> NoRow]
         ELSE IF o.data.id = NoId
         THEN [out |-> "error", err |-> "missing_id", id |-> NoId, row |-> NoRow]
         ELSE IF ValidatedVersion(o.data) = NoVersion
         THEN [out |-> "error", err |-> "missing_id", id |-> NoId,
               row |-> NoRow]
         ELSE LET u == update_inspection(Vis(p, o.data.id), o.data,
                                         ValidatedVersion(o.data),
                                         startTick[p])
              IN  IF u.out = "DoesNotExist"
                  THEN [out |-> "error", err |-> "DoesNotExist", id |-> NoId,
                        row |-> NoRow]
                  ELSE IF u.out = "ConflictError"
                  THEN [out |-> "conflict", err |-> "none", id |-> o.data.id,
                        row |-> u.row]
                  ELSE [out |-> "ok", err |-> "none", id |-> o.data.id,
                        row |-> u.row]
    ELSE [out |-> "error", err |-> "invalid_type", id |-> NoId, row |-> NoRow]

\* process_batch's handlers of one item's outcome
BMutate(p) ==
    /\ pc[p] = "b_mutate"
    /\ UNCHANGED req
    /\ LET o == op[p]
           target == IF o.type = "UPDATE_INSPECTION"
                     THEN UpdateTarget(p, o.data) ELSE NoId
           creates == o.type = "CREATE_INSPECTION" /\ CreateValid(o.data)
                      /\ create_inspection(CreateValidated(o.data),
                                           req[p].user).out = "ok"
       IN  /\ target # NoId => CanLock(p, target)
           /\ creates => FreeIds # {}
           /\ LET r == process_operation(p, o, req[p].user)
                  l == IF target # NoId THEN Locked(p, target) ELSE lock
              IN  IF r.out = "error"
                  THEN Continue(p, NextPc(p), NoOp, tx[p],
                          Append(results[p],
                                 ErrorEntry("index", 0, o.key, o.type, r.err)),
                          l)
                  ELSE IF r.out = "conflict"
                  THEN Continue(p, NextPc(p), NoOp,
                          ConflictWrites(tx[p], o, req[p].user, r.id,
                                         ValidatedVersion(o.data), r.row, o.data),
                          Append(results[p],
                                 ConflictEntry("id", 0, o.key, o.type, r.id,
                                               ValidatedVersion(o.data), r.row)),
                          l)
                  ELSE Continue(p, "b_record", [o EXCEPT !.data.id = r.id],
                          [tx[p] EXCEPT !.insp[r.id] = r.row,
                              !.muts = Append(@, Mutation(o.key, r.id, r.row))],
                          results[p], l)

\* process_operation's ledger write; the result returned is the local one
BRecord(p) ==
    /\ pc[p] = "b_record"
    /\ UNCHANGED req
    /\ LET o == op[p]
           result == ResultOf(p, o.data.id)
       IN  /\ CanRecord(p, o.key)
           /\ Continue(p, NextPc(p), NoOp,
                [tx[p] EXCEPT !.ledger = record(p, o.key, o.type, o.data.id,
                                                req[p].user, result)],
                Append(results[p],
                       SuccessEntry("index", 0, o.key, o.type, result)),
                lock)

\* ------------------------------------------------- batch_sync's answer
\* the status batch_sync chooses for a processed batch
status_code(entries) ==
    IF \E j \in 1..Len(entries) : entries[j].tag # "success" THEN 207 ELSE 200

\* the values the response renderer's JSON encoder can encode
Encodable == {"dict", "list", "tuple", "str", "int", "bool", "None"}

\* batch_sync hands Response the BatchSyncResponseSerializer(results,
\* many=True) object, a ListSerializer, and not its .data; the response is
\* rendered after the view has returned and process_batch has committed, and
\* a rendering failure is answered 500
batch_sync(entries) ==
    IF "ListSerializer" \in Encodable THEN status_code(entries) ELSE 500

\* ------------------------------------------------- deadlock detection
\* the transaction p waits for, or NoProc
WaitsFor(p) ==
    IF p = NoProc THEN NoProc
    ELSE IF pc[p] = "b_mutate" /\ op[p].type = "UPDATE_INSPECTION"
            /\ UpdateTarget(p, op[p].data) # NoId
            /\ ~CanLock(p, UpdateTarget(p, op[p].data))
    THEN lock[UpdateTarget(p, op[p].data)]
    ELSE IF pc[p] = "u_get" /\ Live(Vis(p, req[p].id))
            /\ ~CanLock(p, req[p].id)
    THEN lock[req[p].id]
    ELSE IF pc[p] \in {"u_record", "c_record", "b_record"}
            /\ ~CanRecord(p, op[p].key)
    THEN KeyHolder(p, op[p].key)
    ELSE NoProc

RECURSIVE Hop(_, _)
Hop(p, n) == IF n = 0 THEN p ELSE WaitsFor(Hop(p, n - 1))

Deadlocked(p) == \E n \in 1..NumProcs : Hop(p, n) = p

\* a database that never breaks a cycle of waiting transactions
DeadlockAbort_Undetected(p) ==
    /\ Deadlocked(p)
    /\ UNCHANGED vars

\* the database breaks the cycle: p's waiting statement raises.  In a batch
\* the error is caught per item (the savepoint of the inner atomic block is
\* rolled back, the transaction goes on); in a view it leaves the
\* transaction, which is rolled back.
DeadlockAbort(p) ==
    /\ Deadlocked(p)
    /\ UNCHANGED req
    /\ IF pc[p] \in {"b_mutate", "b_record"}
       THEN Continue(p, NextPc(p), NoOp, tx[p],
               Append(results[p],
                      ErrorEntry("index", 0, op[p].key, op[p].type, "deadlock")),
               lock)
       ELSE Rollback(p, <<ErrorEntry("http", 500, op[p].key, op[p].type,
                                     "deadlock")>>)

\* ------------------------------------------------- the system
\* concurrent handlers
Next ==
    \E p \in Procs :
        \/ StartUpdate(p, ConcUpdateOps)
        \/ UGet(p)
        \/ URecord(p)
        \/ StartCreate(p, ConcCreateOps)
        \/ CRun(p)
        \/ Destroy(p)
        \/ StartBatch(p)
        \/ BItem(p, ConcUpdateOps, ConcCreateOps)
        \/ BMutate(p)
        \/ BRecord(p)
        \/ Commit(p)
        \/ DeadlockAbort(p)

Spec == Init /\ [][Next]_vars

\* requests served one after the other: handler p takes the p-th request once
\* the requests before it are answered
SeqTurn(p) ==
    /\ pc[p] = "idle"
    /\ \A q \in Procs : q < p => pc[q] = "done"

NextSeq ==
    \E p \in Procs :
        \/ SeqTurn(p) /\ StartUpdate(p, SeqUpdateOps)
        \/ UGet(p)
        \/ URecord(p)
        \/ SeqTurn(p) /\ StartCreate(p, SeqCreateOps)
        \/ CRun(p)
        \/ SeqTurn(p) /\ Destroy(p)
        \/ SeqTurn(p) /\ Approve(p)
        \/ SeqTurn(p) /\ Reject(p)
        \/ SeqTurn(p) /\ StartBatch(p)
        \/ SeqTurn(p) /\ RejectBatch(p)
        \/ BReject(p)
        \/ BItem(p, SeqUpdateOps, SeqCreateOps)
        \/ BMutate(p)
        \/ BRecord(p)
        \/ Commit(p)

SpecSeq == Init /\ [][NextSeq]_vars

\* ------------------------------------------------- batches at the size limit
\* batches of one operation repeated, of a length around the limit
BigLens == {MaxOperations - 1, MaxOperations, MaxOperations + 1}

RepeatedOps ==
    WithKeys({"k1"}, ValidUpdates({"A"}, {1, 2}, {Fields2})
                     \cup {[Fields1 EXCEPT !.version = 1]})

\* batch_sync with a long batch: the request serializer lets it through or
\* rejects it as a whole
StartBigBatch(p) ==
    \E n \in BigLens :
        \E o \in RepeatedOps :
            LET types == [j \in 1..n |-> "UPDATE_INSPECTION"]
                r == [NoReq EXCEPT !.kind = "batch", !.user = UserOf(p),
                                   !.types = types, !.key = o.key,
                                   !.data = o.data]
            IN  IF BatchValid(types) /\ validate_operations(types)
                THEN Arrive(p, r, NoOp, "b_item", 0)
                ELSE Arrive(p, r, NoOp, "b_reject", 0)

\* the operation a long batch repeats
Repeated(p) == {[key |-> req[p].key, data |-> req[p].data]}

NextCap ==
    \E p \in Procs :
        \/ SeqTurn(p) /\ StartBigBatch(p)
        \/ BReject(p)
        \/ BItem(p, Repeated(p), Repeated(p))
        \/ BMutate(p)
        \/ BRecord(p)
        \/ Commit(p)

SpecCap == Init /\ [][NextCap]_vars

\* ------------------------------------------------- review during updates
\* approve / reject arrive: the views open no transaction, so get_object and
\* increment_version are two statements, each committed on its own
StartDecide(p, kind) ==
    \E i \in StoredIds :
        Arrive(p, [NoReq EXCEPT !.kind = kind, !.user = UserOf(p), !.id = i],
               NoOp, "d_get", 1)

\* get_object and the status check, on the committed row
DGet(p) ==
    /\ pc[p] = "d_get"
    /\ UNCHANGED req
    /\ LET r == req[p]
           row == inspections[r.id]
       IN  \E locks \in HasSelectForUpdate :
             IF locks
             THEN Rollback(p, <<ErrorEntry("http", 500, NoKey, r.kind,
                                           "TransactionManagementError")>>)
             ELSE IF ~Live(row)
             THEN Rollback(p, <<ErrorEntry("http", 500, NoKey, r.kind,
                                           "DoesNotExist")>>)
             ELSE IF row.status # "submitted"
             THEN Rollback(p, <<ErrorEntry("http", 400, NoKey, r.kind,
                                           "not_submitted")>>)
             ELSE Continue(p, "d_save", op[p], tx[p], results[p], lock)

\* increment_version on the row as it is stored now, once no open
\* transaction has it
DSave(p) ==
    /\ pc[p] = "d_save"
    /\ lock[req[p].id] = NoProc
    /\ LET r == req[p]
           i == r.id
           row == inspections[i]
           instance == [row EXCEPT !.status = IF r.kind = "approve"
                                              THEN "approved" ELSE "rejected",
                                   !.approved_by = r.user]
           after == increment_version(instance, row)
       IN  /\ inspections' = [inspections EXCEPT ![i] = after]
           /\ effects' = [effects EXCEPT ![p] =
                             [EmptyTx EXCEPT !.insp[i] = after,
                                 !.muts = <<Mutation(NoKey, i, after)>>]]
           /\ results' = [results EXCEPT ![p] =
                             <<SuccessEntry("http", 200, NoKey, r.kind,
                                  [id |-> i, version |-> after.version])>>]
    /\ pc' = [pc EXCEPT ![p] = "done"]
    /\ endTick' = [endTick EXCEPT ![p] = nreq]
    /\ UNCHANGED <<ledger, conflicts, lock, req, op, tx, nreq, nops,
                   startInsp, startLedger, startTick>>

\* inspection A has been submitted
InitReview ==
    /\ inspections =
          [i \in AllIds |->
              IF i = "A" THEN InitRow(2, "submitted")
              ELSE IF i = "B" THEN InitRow(1, "draft") ELSE NoRow]
    /\ ledger = << >>
    /\ conflicts = << >>
    /\ lock = [i \in AllIds |-> NoProc]
    /\ pc = [p \in Procs |-> "idle"]
    /\ req = [p \in Procs |-> NoReq]
    /\ op = [p \in Procs |-> NoOp]
    /\ tx = [p \in Procs |-> EmptyTx]
    /\ results = [p \in Procs |-> << >>]
    /\ nreq = 0
    /\ nops = 0
    /\ startInsp = [p \in Procs |-> inspections]
    /\ startLedger = [p \in Procs |-> << >>]
    /\ startTick = [p \in Procs |-> 0]
    /\ endTick = [p \in Procs |-> 0]
    /\ effects = [p \in Procs |-> EmptyTx]

\* the updates an inspector sends for the submitted inspection
ReviewUpdateOps ==
    WithKeys({"k1"}, ValidUpdates({"A"}, {2}, {Fields1, Fields3}))

\* managers review while inspectors update
NextReview ==
    \E p \in Procs :
        \/ StartUpdate(p, ReviewUpdateOps)
        \/ UGet(p)
        \/ URecord(p)
        \/ Commit(p)
        \/ StartDecide(p, "approve")
        \/ StartDecide(p, "reject")
        \/ DGet(p)
        \/ DSave(p)

SpecReview == InitReview /\ [][NextReview]_vars

\* ------------------------------------------------- aborted requests
\* the request dies before its outermost atomic block has committed: the
\* worker is stopped, or the database connection is lost.  The database drops
\* the transaction; the client is taken to get a 500 (or no answer).
Abort(p) ==
    /\ pc[p] \notin {"idle", "done"}
    /\ UNCHANGED req
    /\ Rollback(p, <<ErrorEntry("http", 500, NoKey, "request", "aborted")>>)

\* requests served one after the other, each of which may be aborted
NextAbort ==
    \E p \in Procs :
        \/ SeqTurn(p) /\ StartUpdate(p, ConcUpdateOps)
        \/ UGet(p)
        \/ URecord(p)
        \/ SeqTurn(p) /\ StartBatch(p)
        \/ BItem(p, ConcUpdateOps, ConcCreateOps)
        \/ BMutate(p)
        \/ BRecord(p)
        \/ Commit(p)
        \/ Abort(p)

SpecAbort == Init /\ [][NextAbort]_vars

\* ------------------------------------------------- reading the histories
Done(p) == pc[p] = "done"

\* the handlers that have taken a request
Served == {p \in Procs : pc[p] # "idle"}

\* no handler has taken a second request
FirstRequests == nreq = Cardinality(Served)

\* request p is one operation of type t: a direct call, or a batch of one item
IsOne(p, t) ==
    \/ req[p].kind = "update" /\ t = "UPDATE_INSPECTION"
    \/ req[p].kind = "create" /\ t = "CREATE_INSPECTION"
    \/ req[p].kind = "batch" /\ req[p].types = <<t>> /\ Len(req[p].ops) = 1

TheOp(p) == req[p].ops[1]
Outcome(p) == results[p][1]
Payload(entry) == [id |-> entry.id, version |-> entry.version]

\* request q arrived after request p was answered / while p was being served
Before(p, q) == endTick[p] # 0 /\ endTick[p] < startTick[q]
Overlap(p, q) == ~Before(p, q) /\ ~Before(q, p)

\* an update that the stored rows snap let through: valid payload, live
\* target, client version equal to the stored one
GoodUpdate(d, snap) ==
    /\ UpdateValid(d)
    /\ d.id \in StoredIds
    /\ Live(snap[d.id])
    /\ d.version = snap[d.id].version

\* the handlers that were served raced with one update each on inspection i,
\* all sent with the version stored when they arrived
UpdateRace(i) ==
    /\ FirstRequests
    /\ Cardinality(Served) >= 2
    /\ \A p \in Served :
          /\ Done(p)
          /\ IsOne(p, "UPDATE_INSPECTION")
          /\ TheOp(p).data.id = i
          /\ GoodUpdate(TheOp(p).data, startInsp[p])
          /\ \A q \in Served : startInsp[q][i] = startInsp[p][i]

OneWinner(i) ==
    \E w \in Served :
        /\ Outcome(w).tag = "success"
        /\ Payload(Outcome(w)) = [id |-> i, version |-> startInsp[w][i].version + 1]
        /\ inspections[i] = ApplyUpdate(startInsp[w][i], TheOp(w).data, startTick[w])
        /\ \A q \in Served \ {w} : Outcome(q).tag = "conflict"

\* no two of the racing requests carry the same idempotency key, and none
\* carries a key the ledger already holds
OwnKeys ==
    \A p \in Served :
        /\ ~HasKey(startLedger[p], TheOp(p).key)
        /\ \A q \in Served \ {p} :
              TheOp(p).key = NoKey \/ TheOp(p).key # TheOp(q).key

\* C1 as stated: of N >= 2 concurrent updates of one inspection, all sent with
\* the stored version V, exactly one succeeds and leaves version V+1 with its
\* patch applied, and every other one ends with a version conflict and changes
\* nothing.
C1_AnyKeys == \A i \in StoredIds : UpdateRace(i) => OneWinner(i)

\* C1, for requests whose idempotency keys are pairwise different and not yet
\* in the ledger: exactly one of the N concurrent updates sent with the stored
\* version V succeeds (version V+1, its patch applied), every other one ends
\* with a version conflict and changes nothing.
C1_OwnKeys == \A i \in StoredIds : UpdateRace(i) /\ OwnKeys => OneWinner(i)

C1_Witness ==
    \E i \in StoredIds :
        /\ UpdateRace(i) /\ OwnKeys
        /\ \E q \in Served : Outcome(q).tag = "conflict"
        /\ inspections[i].version = startInsp[1][i].version + 1

\* C2: the update that loses the race (both sent with client_version V) gets
\* a conflict result with client_version V, server_version V+1 and a
\* server_data snapshot at version V+1 that carries the winner's change.
C2_ConflictReport ==
    \A i \in StoredIds :
        UpdateRace(i) =>
            \A q \in Served :
                Outcome(q).tag = "conflict" =>
                    /\ Outcome(q).client_version = startInsp[q][i].version
                    /\ Outcome(q).server_version = startInsp[q][i].version + 1
                    /\ Outcome(q).server_data.version = startInsp[q][i].version + 1
                    /\ \E w \in Served \ {q} :
                          /\ Outcome(w).tag = "success"
                          /\ Outcome(q).server_data =
                                ApplyUpdate(startInsp[w][i], TheOp(w).data, startTick[w])

C2_Witness ==
    \E i \in StoredIds :
        /\ UpdateRace(i)
        /\ \E q \in Served :
              /\ Outcome(q).tag = "conflict"
              /\ Outcome(q).server_version = 2
              /\ Outcome(q).server_data.status = "submitted"

\* ------------------------------------------------- idempotent replay
\* an operation of type t that the rows snap let through
GoodOp(t, d, snap) ==
    IF t = "UPDATE_INSPECTION" THEN GoodUpdate(d, snap) ELSE CreateValid(d)

\* the two submissions returned the same {id, version} and the inspection
\* moved by one version: from start to start + 1 (a create: from none to 1)
SameResultOnce(t, snap, e1, e2) ==
    /\ e1.tag = "success"
    /\ e2.tag = "success"
    /\ Payload(e1) = Payload(e2)
    /\ e1.id \in AllIds
    /\ e1.version = snap[e1.id].version + 1

\* the same keyed operation sent in two requests, one after the other
TwiceInTwoRequests(p, q, t) ==
    /\ Done(p) /\ Done(q)
    /\ startTick[p] = 1 /\ startTick[q] = 2
    /\ IsOne(p, t) /\ IsOne(q, t)
    /\ TheOp(p) = TheOp(q)
    /\ TheOp(p).key # NoKey
    /\ GoodOp(t, TheOp(p).data, startInsp[p])

\* the same keyed operation sent as the first two items of one batch
TwiceInOneBatch(p, t) ==
    /\ Done(p)
    /\ startTick[p] = 1
    /\ req[p].kind = "batch"
    /\ Len(req[p].ops) >= 2
    /\ req[p].types[1] = t /\ req[p].types[2] = t
    /\ req[p].ops[1] = req[p].ops[2]
    /\ GoodOp(t, req[p].ops[1].data, startInsp[p])

KeyedMutations(muts, k) == {m \in 1..Len(muts) : muts[m].key = k}

\* C3: the same create or update sent twice with the same idempotency key and
\* payload (in two requests, or as two items of one batch) returns the same
\* {id, version} both times, and the inspection's version advances by exactly
\* 1 over the two submissions.
C3_SameResultTwice ==
    \A t \in OperationChoices :
        \A p \in Procs :
            /\ \A q \in Procs \ {p} :
                  TwiceInTwoRequests(p, q, t) =>
                      /\ SameResultOnce(t, startInsp[p], Outcome(p), Outcome(q))
                      /\ effects[q].muts = << >>
                      /\ inspections[Outcome(p).id].version = Outcome(p).version
            /\ TwiceInOneBatch(p, t) =>
                  /\ SameResultOnce(t, startInsp[p], results[p][1], results[p][2])
                  /\ Cardinality(KeyedMutations(effects[p].muts,
                                                req[p].ops[1].key)) = 1

\* C4: two first-time requests with the same idempotency key that run
\* concurrently leave exactly one ledger record for the key, both callers get
\* the result stored in that record, and at most one mutation is applied.
C4_OneRecordOneResult ==
    \A p \in Procs :
        \A q \in Procs \ {p} :
            /\ FirstRequests
            /\ Done(p) /\ Done(q)
            /\ Overlap(p, q)
            /\ IsOne(p, "UPDATE_INSPECTION") /\ IsOne(q, "UPDATE_INSPECTION")
            /\ TheOp(p) = TheOp(q)
            /\ TheOp(p).key # NoKey
            /\ GoodUpdate(TheOp(p).data, startInsp[p])
            /\ GoodUpdate(TheOp(q).data, startInsp[q])
            => /\ Cardinality({j \in 1..Len(ledger) :
                      ledger[j].idempotency_key = TheOp(p).key}) = 1
               /\ Outcome(p).tag = "success"
               /\ Outcome(q).tag = "success"
               /\ Payload(Outcome(p)) = RowOfKey(ledger, TheOp(p).key).result
               /\ Payload(Outcome(q)) = RowOfKey(ledger, TheOp(p).key).result
               /\ Len(effects[p].muts) + Len(effects[q].muts) <= 1

\* the items of request q whose key the ledger held when q arrived
Replays(q) ==
    {j \in 1..Len(req[q].ops) : HasKey(startLedger[q], req[q].ops[j].key)}

\* C5: a request whose idempotency key already has a ledger record returns
\* the stored result and mutates nothing (inspections, ledger and conflict log
\* unchanged), whatever its payload, version, type or user and whatever became
\* of the inspection, on the direct endpoints and in a batch alike.
C5_ReplayIsTerminal ==
    \A q \in Procs :
        Done(q) /\ req[q].kind \in {"update", "create", "batch"} =>
            /\ \A j \in Replays(q) :
                  /\ j <= Len(results[q])
                  /\ results[q][j].tag = "success"
                  /\ Payload(results[q][j]) =
                        RowOfKey(startLedger[q], req[q].ops[j].key).result
                  /\ KeyedMutations(effects[q].muts, req[q].ops[j].key) = {}
            /\ (Replays(q) = 1..Len(req[q].ops) /\ req[q].ops # << >>)
                  => effects[q] = EmptyTx

\* ------------------------------------------------- the ledger
UniqueKeys(rows) ==
    \A j \in 1..Len(rows) :
        \A h \in 1..Len(rows) :
            rows[j].idempotency_key = rows[h].idempotency_key => j = h

\* C6: the ledger never holds two records with one idempotency key, and a
\* record, once there, keeps its operation_type, entity_id and result and is
\* never removed: every step leaves the ledger a duplicate-free extension of
\* what it was.
C6_LedgerStable ==
    [][/\ Len(ledger') >= Len(ledger)
       /\ SubSeq(ledger', 1, Len(ledger)) = ledger
       /\ UniqueKeys(ledger')]_vars

\* a handler is about to write a key that another request has committed since
\* the handler looked it up
C6_Witness ==
    \E p \in Procs :
        /\ pc[p] \in {"u_record", "b_record"}
        /\ HasKey(ledger, op[p].key)
        /\ Len(ledger) >= 1

\* C7: version check, mutation and ledger write of a keyed operation are
\* all-or-nothing: no committed state has the mutation of a keyed operation
\* without a ledger record for its key, nor a ledger record without the
\* mutation, also when the ledger write fails after the mutation.
C7_AllOrNothing ==
    /\ \A p \in Procs :
          Done(p) =>
              \A m \in 1..Len(effects[p].muts) :
                  effects[p].muts[m].key # NoKey
                      => HasKey(ledger, effects[p].muts[m].key)
    /\ \A j \in 1..Len(ledger) :
          /\ ledger[j].entity_id \in AllIds
          /\ inspections[ledger[j].entity_id].version >= ledger[j].result.version

\* ------------------------------------------------- failures and retries
SuccessWithKey(entries, k) ==
    \E j \in 1..Len(entries) : entries[j].tag = "success" /\ entries[j].key = k

\* every ledger record a request wrote belongs to one of its successes
RecordsAreSuccesses(p) ==
    \A r \in 1..Len(effects[p].ledger) :
        \E j \in 1..Len(results[p]) :
            /\ results[p][j].tag = "success"
            /\ results[p][j].key = effects[p].ledger[r].idempotency_key
            /\ Payload(results[p][j]) = effects[p].ledger[r].result

\* request q is the request after p: one update with p's key, sent with the
\* version stored when q arrived
RetryOf(p, q) ==
    /\ Done(p) /\ Done(q)
    /\ startTick[q] = startTick[p] + 1
    /\ IsOne(p, "UPDATE_INSPECTION") /\ IsOne(q, "UPDATE_INSPECTION")
    /\ TheOp(p).key # NoKey
    /\ TheOp(q).key = TheOp(p).key
    /\ ~HasKey(startLedger[p], TheOp(p).key)

\* q's update was executed: version check passed, version raised by one,
\* and the key recorded with that result
Executed(q) ==
    LET d == TheOp(q).data
        after == [id |-> d.id, version |-> d.version + 1]
    IN  /\ Outcome(q).tag = "success"
        /\ Payload(Outcome(q)) = after
        /\ effects[q].muts = <<Mutation(TheOp(q).key, d.id, after)>>
        /\ effects[q].insp[d.id] = ApplyUpdate(startInsp[q][d.id], d, startTick[q])
        /\ ~HasKey(startLedger[q], TheOp(q).key)
        /\ HasKey(effects[q].ledger, TheOp(q).key)
        /\ RowOfKey(ledger, TheOp(q).key).result = after

\* C8: an operation that ends in a version conflict writes no ledger record
\* for its key; a later request with the same key and the now-current version
\* passes the ordinary version check (a stale one conflicts again), succeeds,
\* raises the version by 1, and only then is the key recorded.
C8_ConflictNotRecorded ==
    \A p \in Procs :
        Done(p) =>
            /\ RecordsAreSuccesses(p)
            /\ \A j \in 1..Len(results[p]) :
                  (results[p][j].tag = "conflict"
                     /\ ~SuccessWithKey(results[p], results[p][j].key))
                  => ~HasKey(effects[p].ledger, results[p][j].key)
            /\ \A q \in Procs \ {p} :
                  (RetryOf(p, q) /\ Outcome(p).tag = "conflict"
                     /\ UpdateValid(TheOp(q).data)
                     /\ TheOp(q).data.version # NoVersion
                     /\ TheOp(q).data.id = TheOp(p).data.id)
                  => IF GoodUpdate(TheOp(q).data, startInsp[q])
                     THEN Executed(q)
                     ELSE Outcome(q).tag = "conflict"

C8_Witness ==
    \E p \in Procs :
        \E q \in Procs \ {p} :
            /\ RetryOf(p, q)
            /\ Outcome(p).tag = "conflict"
            /\ GoodUpdate(TheOp(q).data, startInsp[q])
            /\ TheOp(q).data.id = TheOp(p).data.id
            /\ Executed(q)

\* the non-conflict reasons for which an operation of type t with payload d
\* fails against the rows snap; the direct update has its id in the URL and
\* fails for an invalid payload or a missing inspection
FailsFor(kind, t, d, snap) ==
    IF t = "CREATE_INSPECTION" THEN ~CreateValid(d)
    ELSE \/ ~UpdateValid(d)
         \/ d.id \notin StoredIds
         \/ ~Live(snap[d.id])
         \/ kind = "batch" /\ d.version = NoVersion

FreshSuccess(p, j) ==
    /\ results[p][j].tag = "success"
    /\ ~HasKey(startLedger[p], results[p][j].key)
    /\ \A h \in 1..(j - 1) :
          ~(results[p][h].tag = "success" /\ results[p][h].key = results[p][j].key)

\* the version of inspection i that item j of p's batch met
VersionAt(p, j, i) ==
    startInsp[p][i].version
      + Cardinality({h \in 1..(j - 1) : FreshSuccess(p, h) /\ results[p][h].id = i})

\* the key of item j is new to the ledger and to the items before it
NewKey(p, j) ==
    /\ ~HasKey(startLedger[p], req[p].ops[j].key)
    /\ \A h \in 1..(j - 1) :
          ~(results[p][h].tag = "success"
              /\ results[p][h].key = req[p].ops[j].key)

Committed(p, i) ==
    IF effects[p].insp[i] = NoRow THEN startInsp[p][i] ELSE effects[p].insp[i]

Tags(entries) == [j \in 1..Len(entries) |-> entries[j].tag]

\* C10: in a batch an item that conflicts or fails neither stops the later
\* items nor undoes the earlier ones: every item gets its outcome in input
\* order, each update's outcome depends only on the versions the earlier
\* successes left, and every success is committed with its ledger record; a
\* batch of three where only item 2 conflicts answers success, conflict,
\* success with items 1 and 3 committed.
C10_ItemsIndependent ==
    \A p \in Procs :
        (Done(p) /\ req[p].kind = "batch" /\ BatchValid(req[p].types)) =>
            /\ Len(results[p]) = Len(req[p].types)
            /\ \A j \in 1..Len(results[p]) :
                  LET d == req[p].ops[j].data
                  IN  /\ (req[p].types[j] = "UPDATE_INSPECTION"
                            /\ UpdateValid(d) /\ d.id \in StoredIds
                            /\ d.version # NoVersion
                            /\ Live(startInsp[p][d.id]) /\ NewKey(p, j))
                         => IF d.version = VersionAt(p, j, d.id)
                            THEN /\ results[p][j].tag = "success"
                                 /\ Payload(results[p][j]) =
                                       [id |-> d.id, version |-> d.version + 1]
                            ELSE results[p][j].tag = "conflict"
                      /\ FreshSuccess(p, j)
                         => /\ HasKey(effects[p].ledger, results[p][j].key)
                            /\ RowOfKey(effects[p].ledger,
                                        results[p][j].key).result
                                  = Payload(results[p][j])
            /\ \A i \in StoredIds :
                  Committed(p, i).version
                     = VersionAt(p, Len(results[p]) + 1, i)

C10_Witness ==
    \E p \in Procs :
        /\ Done(p)
        /\ req[p].kind = "batch"
        /\ Tags(results[p]) = <<"success", "conflict", "success">>
        /\ \E i \in StoredIds :
              Committed(p, i).version = startInsp[p][i].version + 2

\* ------------------------------------------------- the batch response
\* C11: a processed batch of n operations answers n entries, entry j carrying
\* the idempotency key and operation type of operation j and exactly one of
\* the tags success, conflict, error, and every entry carries its input
\* position under the same index field.
C11_PositionalEntries ==
    \A p \in Procs :
        (Done(p) /\ req[p].kind = "batch" /\ BatchValid(req[p].types)) =>
            /\ Len(results[p]) = Len(req[p].types)
            /\ \A j \in 1..Len(results[p]) :
                  /\ results[p][j].key = req[p].ops[j].key
                  /\ results[p][j].type = req[p].types[j]
                  /\ results[p][j].tag \in {"success", "conflict", "error"}
                  /\ results[p][j].pos = "index"

\* C12: a batch of more than 100 operations is rejected as a whole before any
\* item is processed (no inspection created or changed, no ledger record, no
\* conflict record); a batch of exactly 100 operations is processed.
C12_BatchCap ==
    \A p \in Procs :
        (Done(p) /\ req[p].kind = "batch" /\ BatchValid(req[p].types)) =>
            IF Len(req[p].types) > 100
            THEN /\ Tags(results[p]) = <<"error">>
                 /\ Outcome(p).code = 400
                 /\ req[p].ops = << >>
                 /\ effects[p] = EmptyTx
            ELSE /\ Len(results[p]) = Len(req[p].types)
                 /\ Len(req[p].ops) = Len(req[p].types)

C12_Witness ==
    \E p \in Procs :
        \E q \in Procs :
            /\ Done(p) /\ Done(q)
            /\ Len(req[p].types) = 100 /\ Len(results[p]) = 100
            /\ effects[p].muts # << >>
            /\ Len(req[q].types) = 101 /\ Tags(results[q]) = <<"error">>

\* C13: a batch item of an unsupported operation type fails only that item
\* with an error outcome; the other items of the batch are still processed and
\* reported, and the batch is not rejected as a whole.
C13_UnsupportedFailsItemOnly ==
    \A p \in Procs :
        (Done(p) /\ req[p].kind = "batch" /\ validate_operations(req[p].types)) =>
            /\ Len(results[p]) = Len(req[p].types)
            /\ \A j \in 1..Len(results[p]) :
                  /\ results[p][j].pos \in {"index", "id"}
                  /\ req[p].types[j] \notin OperationChoices
                        => results[p][j].tag = "error"

\* ------------------------------------------------- versions
\* the mutations request p applied to inspection i, in order
MutsOn(p, i) == SelectSeq(effects[p].muts, LAMBDA m : m.id = i)

\* C14: every operation that successfully changes a stored inspection
\* (update, approve, reject, soft delete) raises its version by exactly 1, no
\* operation lowers the version or raises it by more than 1, and a stored
\* inspection's version is always at least 1.
C14_VersionPlusOne ==
    /\ \A i \in AllIds : inspections[i] # NoRow => inspections[i].version >= 1
    /\ \A p \in Procs :
          Done(p) =>
              \A i \in AllIds :
                  /\ \A k \in 1..Len(MutsOn(p, i)) :
                        MutsOn(p, i)[k].version = startInsp[p][i].version + k
                  /\ Committed(p, i).version
                        = startInsp[p][i].version + Len(MutsOn(p, i))
                  /\ Committed(p, i) # startInsp[p][i] => MutsOn(p, i) # << >>

\* the uncommitted mutations of transaction p on inspection i
TxMutsOn(p, i) == SelectSeq(tx[p].muts, LAMBDA m : m.id = i)

\* transaction p commits, holding the row lock of i, compare-and-increment
\* mutations of i only: each one answers an operation of p that supplied the
\* version it found
ChecksAndIncrements(p, i) ==
    /\ pc[p] = "commit"
    /\ pc'[p] = "done"
    /\ lock[i] = p
    /\ inspections'[i].version = inspections[i].version + Len(TxMutsOn(p, i))
    /\ \A k \in 1..Len(TxMutsOn(p, i)) :
          \E j \in 1..Len(req[p].ops) :
              /\ req[p].ops[j].data.id = i
              /\ req[p].ops[j].data.version = TxMutsOn(p, i)[k].version - 1
              /\ TxMutsOn(p, i)[k].version = inspections[i].version + k

\* C15: every change of an inspection's version happens on the
\* compare-and-increment path: whenever the stored version changes, the
\* request that caused it supplied the version it changed as its expected
\* version and compared it under the row lock; no endpoint (approve and
\* reject included) changes the version without that check.
C15_OnlyCompareAndIncrement ==
    [][\A i \in AllIds :
          inspections'[i].version # inspections[i].version
              => \E p \in Procs : ChecksAndIncrements(p, i)]_vars

\* ------------------------------------------------- status transitions
\* the status changes the specification lets an update make
AllowedTransitions ==
    {<<"draft", "submitted">>, <<"submitted", "approved">>,
     <<"submitted", "rejected">>}

\* C16: an update whose patch would move the status along a transition other
\* than draft to submitted, submitted to approved or submitted to rejected
\* fails with an invalid-state-transition error and leaves status and version
\* unchanged, even when the client version matches.
C16_TransitionsGuarded ==
    \A p \in Procs :
        (/\ Done(p)
         /\ IsOne(p, "UPDATE_INSPECTION")
         /\ ~HasKey(startLedger[p], TheOp(p).key)
         /\ GoodUpdate(TheOp(p).data, startInsp[p])
         /\ Has(TheOp(p).data, "status")
         /\ TheOp(p).data.status # startInsp[p][TheOp(p).data.id].status
         /\ <<startInsp[p][TheOp(p).data.id].status, TheOp(p).data.status>>
               \notin AllowedTransitions)
        => /\ Outcome(p).tag = "error"
           /\ Committed(p, TheOp(p).data.id).status
                 = startInsp[p][TheOp(p).data.id].status
           /\ Committed(p, TheOp(p).data.id).version
                 = startInsp[p][TheOp(p).data.id].version


\* ------------------------------------------------- conflict records
\* the conflict records written so far, committed or in a running transaction
AllConflictRecords ==
    {conflicts[n] : n \in 1..Len(conflicts)}
    \cup UNION {{tx[p].conf[n] : n \in 1..Len(tx[p].conf)} : p \in Procs}

\* C17: every conflict record carries the version the store held when the
\* conflict was detected as server_version_number, a server_data snapshot with
\* that same version, and a client_version_number that is present and differs
\* from server_version_number.
C17_ConflictRecordVersions ==
    /\ \A c \in AllConflictRecords :
          /\ c.server_version_number = c.server_data.version
          /\ c.client_version_number # NoVersion
          /\ c.client_version_number # c.server_version_number
    /\ \A p \in Procs :
          (Done(p) /\ Len(req[p].ops) = 1
               /\ Len(effects[p].conf) = 1)
          => effects[p].conf[1].server_version_number
                = startInsp[p][effects[p].conf[1].inspection].version


\* the positions of p's results that report a conflict, and the place of
\* position j among them
ConflictIdx(p) == {j \in 1..Len(results[p]) : results[p][j].tag = "conflict"}
ConflictRank(p, j) == Cardinality({k \in ConflictIdx(p) : k <= j})

\* the conflict records p committed are in the store, in one piece
ConflictsStored(p) ==
    \E n \in 0..Len(conflicts) :
        /\ n + Len(effects[p].conf) <= Len(conflicts)
        /\ SubSeq(conflicts, n + 1, n + Len(effects[p].conf)) = effects[p].conf

\* C18: each update that ends in a conflict appends exactly one conflict
\* record, holding the client's patch and the server snapshot of the result,
\* committed together with the conflict result; a success, a ledger replay and
\* a non-conflict error append none.
C18_OneRecordPerConflict ==
    \A p \in Procs :
        Done(p) =>
            /\ Len(effects[p].conf) = Cardinality(ConflictIdx(p))
            /\ ConflictsStored(p)
            /\ \A j \in ConflictIdx(p) :
                  LET c == effects[p].conf[ConflictRank(p, j)]
                      e == results[p][j]
                  IN  /\ c.inspection = e.id
                      /\ c.client_data = req[p].ops[j].data
                      /\ c.client_version_number = e.client_version
                      /\ c.server_data = e.server_data
                      /\ c.server_version_number = e.server_version

C18_Witness ==
    \E p \in Procs :
        /\ Done(p)
        /\ Len(results[p]) = 2
        /\ Tags(results[p]) \in {<<"conflict", "success">>, <<"error", "conflict">>}
        /\ Len(effects[p].conf) = 1
        /\ Len(conflicts) = 2


\* ------------------------------------------------- create
\* C19: a create whose template exists makes a new inspection at version 1
\* (whatever version the client sent), owned by the requesting user, in status
\* draft unless the payload supplies one; a create whose template does not
\* exist returns a template-not-found error, creates no inspection and writes
\* no ledger record.
C19_CreateAtVersionOne ==
    \A p \in Procs :
        (/\ Done(p)
         /\ IsOne(p, "CREATE_INSPECTION")
         /\ ~HasKey(startLedger[p], TheOp(p).key))
        => LET d == TheOp(p).data
           IN  /\ CreateValid(d)
                  => /\ Outcome(p).tag = "success"
                     /\ Outcome(p).id \in AllIds
                     /\ startInsp[p][Outcome(p).id] = NoRow
                     /\ Outcome(p).version = 1
                     /\ Committed(p, Outcome(p).id).version = 1
                     /\ Committed(p, Outcome(p).id).inspector = req[p].user
                     /\ Committed(p, Outcome(p).id).status
                           = IF Has(d, "status") THEN d.status ELSE "draft"
               /\ d.template_id \notin Templates
                  => /\ Outcome(p).tag = "error"
                     /\ effects[p].muts = << >>
                     /\ effects[p].ledger = << >>
                     /\ \A i \in AllIds : Committed(p, i) = startInsp[p][i]


\* ------------------------------------------------- soft delete
\* C20: a soft delete succeeds only for an inspection in status draft, and
\* then marks it deleted and records the deleting user; a delete on an
\* inspection in any other status is rejected and changes no field.
C20_DeleteDraftOnly ==
    \A p \in Procs :
        (Done(p) /\ req[p].kind = "destroy")
        => LET i == req[p].id
               row == startInsp[p][i]
           IN  /\ Outcome(p).tag \in {"success", "error"}
               /\ Outcome(p).tag = "success"
                     <=> (Live(row) /\ row.status = "draft")
               /\ Outcome(p).tag = "success"
                     => /\ Committed(p, i)
                              = [row EXCEPT !.is_deleted = TRUE,
                                            !.deleted_by = req[p].user]
                        /\ \A j \in AllIds \ {i} :
                              Committed(p, j) = startInsp[p][j]
               /\ Outcome(p).tag = "error"
                     => \A j \in AllIds : Committed(p, j) = startInsp[p][j]

\* a submitted inspection survives a delete request untouched
C20_Witness ==
    \E p \in Procs :
        /\ Done(p) /\ req[p].kind = "destroy"
        /\ Live(startInsp[p][req[p].id])
        /\ startInsp[p][req[p].id].status = "submitted"
        /\ Outcome(p).tag = "error"
        /\ Outcome(p).code = 400
        /\ inspections[req[p].id] = startInsp[p][req[p].id]


\* ------------------------------------------------- aborted requests
Aborted(p) ==
    /\ Done(p)
    /\ results[p] = <<ErrorEntry("http", 500, NoKey, "request", "aborted")>>

\* request p was answered in this step
Answered(p) == pc[p] \notin {"idle", "done"} /\ pc'[p] = "done"

\* q is the same request as the aborted p, sent again as the next request: a
\* batch shows the operations it got to, so p's operations are the first of
\* q's
Resubmits(p, q) ==
    /\ Aborted(p)
    /\ startTick[q] = startTick[p] + 1
    /\ req[q].kind = req[p].kind
    /\ req[q].types = req[p].types
    /\ req[q].id = req[p].id
    /\ Len(req[p].ops) >= 1
    /\ Len(req[q].ops) >= Len(req[p].ops)
    /\ SubSeq(req[q].ops, 1, Len(req[p].ops)) = req[p].ops

\* the first operation of q, a keyed update carrying the stored version, was
\* executed once: one mutation, one ledger record, the version raised by one
FirstExecutedOnce(q) ==
    LET o == req[q].ops[1]
        d == o.data
        after == [id |-> d.id, version |-> d.version + 1]
    IN  (/\ o.key # NoKey
         /\ GoodUpdate(d, startInsp[q])
         /\ ~HasKey(startLedger[q], o.key))
        => /\ results[q][1].tag = "success"
           /\ Payload(results[q][1]) = after
           /\ Cardinality(KeyedMutations(effects[q].muts, o.key)) = 1
           /\ HasKey(ledger, o.key)
           /\ RowOfKey(ledger, o.key).result = after
           /\ Len(SelectSeq(ledger, LAMBDA r : r.idempotency_key = o.key)) = 1

\* C21: a request (one operation or a whole batch) aborted before its
\* transaction commits leaves no effect: inspections, ledger and conflict log
\* are as they were before the request, so that the same request sent again
\* with the same idempotency keys is executed once.
C21_AbortLeavesNothing ==
    [][\A p \in Procs :
          /\ (pc[p] \notin {"idle", "done"} /\ conflicts' # conflicts)
                => pc[p] = "commit"
          /\ (Answered(p) /\ Aborted(p)')
                => /\ inspections' = startInsp[p]
                   /\ ledger' = startLedger[p]
                   /\ conflicts' = conflicts
                   /\ lock' = [i \in AllIds |-> NoProc]
          /\ \A q \in Procs \ {p} :
                (Answered(q) /\ Resubmits(p, q)' /\ ~Aborted(q)')
                   => /\ startInsp[q] = startInsp[p]
                      /\ startLedger[q] = startLedger[p]
                      /\ FirstExecutedOnce(q)']_vars

\* an aborted batch with a keyed update of the stored version, sent again
\* and executed
C21_Witness ==
    \E p \in Procs :
        \E q \in Procs \ {p} :
            /\ Resubmits(p, q)
            /\ Done(q) /\ ~Aborted(q)
            /\ req[p].kind = "batch"
            /\ Len(req[p].ops) = 1
            /\ req[p].ops[1].key # NoKey
            /\ GoodUpdate(req[p].ops[1].data, startInsp[p])
            /\ results[q][1].tag = "success"
            /\ HasKey(ledger, req[p].ops[1].key)
            /\ inspections[req[p].ops[1].data.id].version
                  = startInsp[p][req[p].ops[1].data.id].version + 1


\* ------------------------------------------------- the batch answer
\* p's batch passed the request validation and was processed to its end
Processed(p) ==
    /\ Done(p)
    /\ req[p].kind = "batch"
    /\ Len(results[p]) = Len(req[p].types)
    /\ \A j \in 1..Len(results[p]) : results[p][j].pos # "http"

\* C22: the batch endpoint answers 200 exactly when every item of the batch
\* succeeded, and 207 when at least one item ended in a conflict or an error,
\* also when every item failed.
C22_BatchStatus ==
    \A p \in Procs :
        Processed(p)
        => batch_sync(results[p])
              = IF \A j \in 1..Len(results[p]) : results[p][j].tag = "success"
                THEN 200 ELSE 207


\* ------------------------------------------------- independence
\* request q names inspection i: in the URL or in an operation it has taken
Touches(q, i) ==
    \/ req[q].id = i
    \/ \E j \in 1..Len(req[q].ops) : req[q].ops[j].data.id = i

\* request q carries idempotency key k
Carries(q, k) ==
    \/ req[q].key = k
    \/ \E j \in 1..Len(req[q].ops) : req[q].ops[j].key = k

\* p was one update of inspection i with the version stored at its arrival
\* and a key the ledger did not hold, and no request served meanwhile named i
\* (every handler is on its first request, so each request served is on record)
UpdateBeside(p, i) ==
    /\ FirstRequests
    /\ Done(p)
    /\ IsOne(p, "UPDATE_INSPECTION")
    /\ TheOp(p).data.id = i
    /\ GoodUpdate(TheOp(p).data, startInsp[p])
    /\ ~HasKey(startLedger[p], TheOp(p).key)
    /\ \A q \in Procs \ {p} : Overlap(p, q) => ~Touches(q, i)

\* p's update took effect: the version stored at arrival raised by one
TookEffect(p, i) ==
    /\ Outcome(p).tag = "success"
    /\ Payload(Outcome(p)) = [id |-> i, version |-> startInsp[p][i].version + 1]
    /\ Committed(p, i) = ApplyUpdate(startInsp[p][i], TheOp(p).data, startTick[p])

\* at most one transaction has written inspection i and not yet committed,
\* and it holds i's row lock; the stored version changes only when the lock
\* holder commits, and the versions it wrote are the next ones, each once
RowOrdered(i) ==
    /\ Cardinality({p \in Procs : tx[p].insp[i] # NoRow}) <= 1
    /\ \A p \in Procs : tx[p].insp[i] # NoRow => lock[i] = p
    /\ inspections'[i].version # inspections[i].version
          => \E p \in Procs :
                /\ pc[p] = "commit" /\ pc'[p] = "done"
                /\ lock[i] = p
                /\ TxMutsOn(p, i) # << >>
                /\ \A k \in 1..Len(TxMutsOn(p, i)) :
                      TxMutsOn(p, i)[k].version = inspections[i].version + k
                /\ inspections'[i].version
                      = inspections[i].version + Len(TxMutsOn(p, i))

\* no request served while p was carries p's idempotency key
KeyOfItsOwn(p) ==
    \A q \in Procs \ {p} :
        (Overlap(p, q) /\ TheOp(p).key # NoKey) => ~Carries(q, TheOp(p).key)

VerdictOf(kind) == IF kind = "approve" THEN "approved" ELSE "rejected"

\* C24: a successful approve of a submitted inspection leaves it stored with
\* status approved, approved_by the caller and the version one higher; a
\* successful reject leaves it rejected likewise; approve or reject on an
\* inspection in any other status is refused and changes nothing.
C24_ApproveReject ==
    \A p \in Procs :
        (Done(p) /\ req[p].kind \in {"approve", "reject"})
        => LET i == req[p].id
               row == startInsp[p][i]
           IN  /\ Outcome(p).tag = "success"
                     => /\ row.status = "submitted"
                        /\ Committed(p, i).status = VerdictOf(req[p].kind)
                        /\ Committed(p, i).approved_by = req[p].user
                        /\ Committed(p, i).version = row.version + 1
               /\ (Live(row) /\ row.status # "submitted")
                     => /\ Outcome(p).tag = "error"
                        /\ \A j \in AllIds : Committed(p, j) = startInsp[p][j]


\* a manager's approve / reject p and an inspector's update q were served at
\* the same time on inspection i, submitted, q carrying the stored version
ReviewRace(p, q, i) ==
    /\ Done(p) /\ Done(q)
    /\ nreq = 2
    /\ Overlap(p, q)
    /\ req[p].kind \in {"approve", "reject"}
    /\ req[p].id = i
    /\ req[q].kind = "update"
    /\ TheOp(q).data.id = i
    /\ startInsp[p][i] = startInsp[q][i]
    /\ startInsp[p][i].status = "submitted"
    /\ GoodUpdate(TheOp(q).data, startInsp[q])
    /\ ~HasKey(startLedger[q], TheOp(q).key)

Took(p) == IF Outcome(p).tag = "success" THEN 1 ELSE 0

\* C25: when an approve (or reject) and an update run concurrently on one
\* submitted inspection at version V, either both take effect and the final
\* version is V+2, or one is refused and the final version is V+1; the final
\* state never has the version raised for an action whose field changes are
\* absent.
C25_ReviewRace ==
    \A i \in StoredIds :
        \A p \in Procs :
            \A q \in Procs \ {p} :
                ReviewRace(p, q, i)
                => LET V == startInsp[p][i].version
                       final == inspections[i]
                   IN  /\ Took(p) + Took(q) >= 1
                       /\ final.version = V + Took(p) + Took(q)
                       /\ Took(p) = 1
                             => /\ final.status = VerdictOf(req[p].kind)
                                /\ final.approved_by = req[p].user
                       /\ (Took(q) = 1 /\ Took(p) = 0)
                             => final = ApplyUpdate(startInsp[q][i], TheOp(q).data, startTick[q])


\* ------------------------------------------------- what an update changes
PatchFields == {"facility_name", "facility_address", "responses", "status"}
KeptFields ==
    {"template", "inspector", "approved_by", "is_deleted", "deleted_by"}

\* p was one update that was applied: not a replay, success
AppliedUpdate(p) ==
    /\ Done(p)
    /\ IsOne(p, "UPDATE_INSPECTION")
    /\ ~HasKey(startLedger[p], TheOp(p).key)
    /\ TheOp(p).data.id \in StoredIds
    /\ Outcome(p).tag = "success"

\* C26: a successful update changes, among facility_name, facility_address,
\* responses and status, only the fields present in the patch, and never the
\* identifier, template, owner, approval fields or deleted marker; besides
\* those only version (+1), updated_at and, when applicable, submitted_at
\* change.
C26_UpdateFrame ==
    \A p \in Procs :
        AppliedUpdate(p)
        => LET d == TheOp(p).data
               i == d.id
               old == startInsp[p][i]
               new == Committed(p, i)
           IN  /\ Outcome(p).id = i
               /\ \A f \in PatchFields :
                     new[f] = IF Has(d, f) THEN d[f] ELSE old[f]
               /\ \A f \in KeptFields : new[f] = old[f]
               /\ new.version = old.version + 1
               /\ \A j \in AllIds \ {i} : Committed(p, j) = startInsp[p][j]

\* an update without status applied to a submitted inspection
C26_Witness ==
    \E p \in Procs :
        /\ AppliedUpdate(p)
        /\ ~Has(TheOp(p).data, "status")
        /\ startInsp[p][TheOp(p).data.id].status = "submitted"
        /\ Committed(p, TheOp(p).data.id).status = "submitted"
        /\ Committed(p, TheOp(p).data.id).facility_name
              # startInsp[p][TheOp(p).data.id].facility_name

\* C27: a successful update sets submitted_at exactly when its patch changes
\* the status from draft to submitted; any other successful update leaves
\* submitted_at as it was.
C27_SubmittedAt ==
    \A p \in Procs :
        AppliedUpdate(p)
        => LET d == TheOp(p).data
               old == startInsp[p][d.id]
               new == Committed(p, d.id)
           IN  IF Has(d, "status") /\ d.status = "submitted"
                  /\ old.status = "draft"
               THEN new.submitted_at = startTick[p]
               ELSE new.submitted_at = old.submitted_at

\* an update that submits a draft, then an update of the submitted
\* inspection, again with status submitted, that keeps the first one's time
C27_Witness ==
    \E p \in Procs :
        \E q \in Procs \ {p} :
            /\ AppliedUpdate(p) /\ AppliedUpdate(q)
            /\ Before(p, q)
            /\ TheOp(p).data.id = TheOp(q).data.id
            /\ startInsp[p][TheOp(p).data.id].submitted_at = NoTime
            /\ TheOp(p).data.status = "submitted"
            /\ TheOp(q).data.status = "submitted"
            /\ Committed(p, TheOp(p).data.id).submitted_at = startTick[p]
            /\ Committed(q, TheOp(q).data.id).submitted_at = startTick[p]
            /\ startTick[q] # startTick[p]


\* ------------------------------------------------- soft-deleted rows
\* the positions of p's results that answer an operation naming inspection i
AnswersOn(p, i) ==
    IF req[p].id = i THEN {1}
    ELSE {j \in 1..Len(results[p]) :
            /\ j <= Len(req[p].ops)
            /\ results[p][j].pos # "http"
            /\ req[p].ops[j].data.id = i}

\* p's j-th result is the stored result of a key the ledger already held
StoredAnswer(p, j) ==
    LET k == results[p][j].key
    IN  /\ k # NoKey
        /\ \/ HasKey(startLedger[p], k)
           \/ \E m \in 1..(j - 1) :
                 results[p][m].tag = "success" /\ results[p][m].key = k

\* request p named inspection i, which was soft-deleted when p arrived: every
\* operation of p on i that was executed was answered with an error, and i
\* is as it was
RefusedOnDeleted(p, i) ==
    (Done(p) /\ startInsp[p][i] # NoRow /\ startInsp[p][i].is_deleted)
    => /\ \A j \in AnswersOn(p, i) :
             results[p][j].tag = "error" \/ StoredAnswer(p, j)
       /\ Committed(p, i) = startInsp[p][i]

\* C28: no operation removes an inspection row: after a soft delete the row
\* is still stored under its identifier with its version and data, while the
\* default read, and so update, approve, reject and a second delete, do not
\* find it and leave it unchanged.
C28_SoftDeleteKeepsRow ==
    [][\A i \in AllIds :
          /\ inspections[i] # NoRow => inspections'[i] # NoRow
          /\ (inspections[i] # NoRow /\ inspections[i].is_deleted)
                => inspections'[i] = inspections[i]
          /\ (inspections[i] # NoRow /\ ~inspections[i].is_deleted
                /\ inspections'[i].is_deleted)
                => inspections'[i]
                      = [inspections[i] EXCEPT
                            !.is_deleted = TRUE,
                            !.deleted_by = inspections'[i].deleted_by]
          /\ \A p \in Procs : RefusedOnDeleted(p, i)']_vars

\* a deleted inspection that a later update with its version did not find
C28_Witness ==
    \E p \in Procs :
        \E q \in Procs \ {p} :
            /\ Done(p) /\ req[p].kind = "destroy"
            /\ Outcome(p).tag = "success"
            /\ Done(q) /\ Before(p, q)
            /\ IsOne(q, "UPDATE_INSPECTION")
            /\ TheOp(q).data.id = req[p].id
            /\ UpdateValid(TheOp(q).data)
            /\ TheOp(q).data.version = startInsp[q][req[p].id].version
            /\ Outcome(q).tag = "error"
            /\ inspections[req[p].id]
                  = [startInsp[p][req[p].id] EXCEPT
                        !.is_deleted = TRUE, !.deleted_by = req[p].user]


\* ------------------------------------------------- identifiers
\* C29: a create that names the identifier of a stored inspection fails with a
\* duplicate-identifier error, leaves that inspection unchanged and writes no
\* ledger record; inspection identifiers are unique in every state.
C29_DuplicateIdentifier ==
    \A p \in Procs :
        (/\ Done(p)
         /\ IsOne(p, "CREATE_INSPECTION")
         /\ ~HasKey(startLedger[p], TheOp(p).key)
         /\ CreateValid(TheOp(p).data)
         /\ TheOp(p).data.id \in AllIds
         /\ startInsp[p][TheOp(p).data.id] # NoRow)
        => /\ Outcome(p).tag = "error"
           /\ Outcome(p).error = "duplicate_identifier"
           /\ \A i \in AllIds : Committed(p, i) = startInsp[p][i]
           /\ effects[p].ledger = << >>


\* ------------------------------------------------- the status domain
StatusDomain == {"draft", "submitted", "rejected", "approved"}

LedgerFacts(rows) ==
    [j \in 1..Len(rows) |->
        <<rows[j].idempotency_key, rows[j].operation_type, rows[j].entity_id,
          rows[j].result>>]

ConflictVersions(rows) ==
    [j \in 1..Len(rows) |->
        <<rows[j].inspection, rows[j].client_version_number,
          rows[j].server_version_number>>]

\* p sent one keyed update to the direct endpoint and q sent the same update
\* as a one-item batch, and both found the same rows and the same ledger
SameUpdateBothWays(p, q) ==
    /\ FirstRequests
    /\ Done(p) /\ Done(q)
    /\ req[p].kind = "update"
    /\ req[q].kind = "batch" /\ IsOne(q, "UPDATE_INSPECTION")
    /\ TheOp(p) = TheOp(q)
    /\ TheOp(p).key # NoKey
    /\ startInsp[p] = startInsp[q]
    /\ startLedger[p] = startLedger[q]

\* C31: the same update (inspection, patch, client version, idempotency key)
\* applied to the same starting state through the direct endpoint and through
\* a one-item batch has the same outcome class and leaves the same inspection
\* rows, ledger record and conflict-record version numbers, a missing or zero
\* version included.
C31_DirectEqualsBatch ==
    \A p, q \in Procs :
        SameUpdateBothWays(p, q)
        => /\ Outcome(p).tag = Outcome(q).tag
           /\ effects[p].insp = effects[q].insp
           /\ LedgerFacts(effects[p].ledger) = LedgerFacts(effects[q].ledger)
           /\ ConflictVersions(effects[p].conf) = ConflictVersions(effects[q].conf)

\* ------------------------------------------------- concurrent batches
\* the updates two racing batches send: each inspection, each key, the
\* stored version
BatchRaceOps == WithKeys(Keys, ValidUpdates(StoredIds, {1}, {Fields1}))

\* batch_sync with a batch of updates, short enough for two to run at once
StartUpdateBatch(p) ==
    \E n \in 1..(MaxBatch - 1) :
        LET types == [j \in 1..n |-> "UPDATE_INSPECTION"]
        IN  /\ BatchValid(types)
            /\ validate_operations(types)
            /\ Arrive(p, [NoReq EXCEPT !.kind = "batch", !.user = UserOf(p),
                                       !.types = types],
                      NoOp, "b_item", 0)

\* what the worker serving p does next, the database's deadlock detector
\* included
BatchStep(p) ==
    \/ BItem(p, BatchRaceOps, BatchRaceOps)
    \/ BMutate(p)
    \/ BRecord(p)
    \/ Commit(p)
    \/ DeadlockAbort(p)

NextBatches ==
    \E p \in Procs :
        \/ StartUpdateBatch(p)
        \/ BItem(p, BatchRaceOps, BatchRaceOps)
        \/ BMutate(p)
        \/ BRecord(p)
        \/ Commit(p)
        \/ DeadlockAbort(p)

\* a worker that can take a step takes one; a statement that can run, runs
SpecBatches ==
    /\ Init
    /\ [][NextBatches]_vars
    /\ \A p \in Procs : WF_vars(BatchStep(p))

\* C32: any two batches running concurrently both run to completion and each
\* returns one outcome per item, whatever the order in which their items
\* touch the same inspections or idempotency keys: no pair of batches blocks
\* each other forever on row locks or ledger inserts.
C32_BatchesComplete ==
    \A p \in Procs :
        /\ [](Done(p) => Len(results[p]) = Len(req[p].types))
        /\ (pc[p] \notin {"idle", "done"}) ~> Done(p)

\* one batch updated A then B while the other updated B then A; they waited
\* for each other, the database refused one statement, and both were answered
C32_Witness ==
    \E p, q \in Procs :
        /\ p # q
        /\ Done(p) /\ Done(q)
        /\ Overlap(p, q)
        /\ Len(req[p].ops) = 2 /\ Len(req[q].ops) = 2
        /\ req[p].ops[1].data.id = "A" /\ req[p].ops[2].data.id = "B"
        /\ req[q].ops[1].data.id = "B" /\ req[q].ops[2].data.id = "A"
        /\ Len(results[p]) = 2 /\ Len(results[q]) = 2
        /\ \E j \in 1..2 : results[p][j].error = "deadlock"

\* ------------------------------------------------- order within a batch
\* items j < k of p's batch are updates of inspection i under different new
\* keys; j is the first item on i and carries the stored version, and no
\* item between them succeeded on i
UpdatesInOrder(p, j, k, i) ==
    /\ j < k /\ k <= Len(results[p])
    /\ req[p].types[j] = "UPDATE_INSPECTION"
    /\ req[p].types[k] = "UPDATE_INSPECTION"
    /\ req[p].ops[j].data.id = i /\ req[p].ops[k].data.id = i
    /\ UpdateValid(req[p].ops[j].data) /\ UpdateValid(req[p].ops[k].data)
    /\ Live(startInsp[p][i])
    /\ req[p].ops[j].key # req[p].ops[k].key
    /\ NewKey(p, j) /\ NewKey(p, k)
    /\ req[p].ops[j].data.version = startInsp[p][i].version
    /\ \A h \in 1..(j - 1) : req[p].ops[h].data.id # i
    /\ \A h \in (j + 1)..(k - 1) :
          ~(results[p][h].tag = "success" /\ results[p][h].id = i)

\* C33: the items of a batch are applied in input order and each sees the
\* effects of the items before it: of two updates of one inspection under
\* different keys, the first carrying the stored version V succeeds with V+1;
\* the second ends in a conflict reporting server_version V+1 when it
\* carries V too, and succeeds with V+2 when it carries V+1.
C33_BatchOrder ==
    \A p \in Procs :
        (Done(p) /\ req[p].kind = "batch" /\ BatchValid(req[p].types)) =>
            /\ \A j \in 1..Len(results[p]) :
                  /\ results[p][j].key = req[p].ops[j].key
                  /\ results[p][j].type = req[p].types[j]
            /\ \A i \in StoredIds : \A j, k \in 1..Len(results[p]) :
                  UpdatesInOrder(p, j, k, i) =>
                     LET V == startInsp[p][i].version
                         second == req[p].ops[k].data
                     IN  /\ results[p][j].tag = "success"
                         /\ Payload(results[p][j]) = [id |-> i, version |-> V + 1]
                         /\ second.version = V =>
                               /\ results[p][k].tag = "conflict"
                               /\ results[p][k].client_version = V
                               /\ results[p][k].server_version = V + 1
                               /\ results[p][k].server_data =
                                     ApplyUpdate(startInsp[p][i],
                                                 req[p].ops[j].data, startTick[p])
                         /\ second.version = V + 1 =>
                               /\ results[p][k].tag = "success"
                               /\ Payload(results[p][k]) =
                                     [id |-> i, version |-> V + 2]
                               /\ Committed(p, i).version >= V + 2

\* one batch on inspection A: an update with the stored version, a second
\* with the same version (refused), a third with the next version (applied)
C33_Witness ==
    \E p \in Procs :
        /\ Done(p)
        /\ req[p].kind = "batch"
        /\ UpdatesInOrder(p, 1, 2, "A")
        /\ UpdatesInOrder(p, 1, 3, "A")
        /\ Tags(results[p]) = <<"success", "conflict", "success">>
        /\ results[p][2].server_version = startInsp[p]["A"].version + 1
        /\ results[p][3].version = startInsp[p]["A"].version + 2

\* ------------------------------------------------- what the ledger holds
\* the ledger record describes a mutation of the list muts
RecordOf(row, muts) ==
    \E m \in 1..Len(muts) :
        /\ muts[m].key = row.idempotency_key
        /\ muts[m].id = row.entity_id
        /\ muts[m].version = row.result.version

\* C34: every ledger record describes a mutation that was committed: its
\* entity_id is the id in its stored result, an inspection with that id is
\* in the store (deleted or not), the version in its result is at least 1 and
\* at most that inspection's stored version, and a CREATE_INSPECTION record
\* stores version 1.
C34_LedgerDescribesCommitted ==
    /\ \A j \in 1..Len(ledger) :
          LET row == ledger[j]
          IN  /\ row.entity_id = row.result.id
              /\ row.entity_id \in AllIds
              /\ inspections[row.entity_id] # NoRow
              /\ row.result.version >= 1
              /\ row.result.version <= inspections[row.entity_id].version
              /\ row.operation_type = "CREATE_INSPECTION"
                    => row.result.version = 1
    /\ \A p \in Procs : \A j \in 1..Len(effects[p].ledger) :
          RecordOf(effects[p].ledger[j], effects[p].muts)

\* a record of an update that a later update has overtaken
C34_Witness ==
    /\ Len(ledger) = 2
    /\ ledger[1].entity_id = "A" /\ ledger[2].entity_id = "A"
    /\ ledger[1].result.version = 2
    /\ ledger[2].result.version = 3
    /\ inspections["A"].version = 3

\* ------------------------------------------------- updates without id or version
\* the payload lacks an id, or lacks a version or gives version 0
Lacking(d) == d.id = NoId \/ d.version = NoVersion \/ d.version = 0

\* p is about to execute an update item whose payload lacks id or version
\* (its key was not found in the ledger)
ExecutesLacking(p) ==
    /\ pc[p] = "b_mutate"
    /\ pc'[p] # "b_mutate"
    /\ op[p].type = "UPDATE_INSPECTION"
    /\ Lacking(op[p].data)

\* C35 as stated: a batch UPDATE_INSPECTION item that lacks an id, or lacks a
\* version or gives version 0, ends with an error outcome.
C35_AnyKey ==
    \A p \in Procs :
        (Done(p) /\ req[p].kind = "batch" /\ BatchValid(req[p].types)) =>
            \A j \in 1..Len(results[p]) :
                (req[p].types[j] = "UPDATE_INSPECTION"
                   /\ Lacking(req[p].ops[j].data))
                => results[p][j].tag = "error"

\* C35, for an item whose idempotency key the ledger does not hold: a batch
\* UPDATE_INSPECTION item that lacks an id, or lacks a version or gives
\* version 0, ends with an error outcome for that item only (the batch goes
\* on to its next item), locks no inspection and writes no inspection, no
\* conflict record and no ledger record.
C35_LackingFailsAlone ==
    [][\A p \in Procs :
          /\ ExecutesLacking(p) =>
                /\ Len(results'[p]) = Len(results[p]) + 1
                /\ SubSeq(results'[p], 1, Len(results[p])) = results[p]
                /\ results'[p][Len(results'[p])].tag = "error"
                /\ results'[p][Len(results'[p])].key = op[p].key
                /\ pc'[p] = NextPc(p)
                /\ lock' = lock
                /\ tx' = tx
                /\ inspections' = inspections
                /\ ledger' = ledger
                /\ conflicts' = conflicts
          /\ (Done(p) /\ req[p].kind = "batch" /\ BatchValid(req[p].types))' =>
                /\ Len(results'[p]) = Len(req'[p].types)
                /\ \A j \in 1..Len(results'[p]) :
                      (req'[p].types[j] = "UPDATE_INSPECTION"
                         /\ Lacking(req'[p].ops[j].data)
                         /\ results'[p][j].tag # "error")
                      => /\ results'[p][j].tag = "success"
                         /\ ~NewKey(p, j)']_vars

\* a batch whose first item has no version and whose second is a good update:
\* the first fails, the second is applied and recorded
C35_Witness ==
    \E p \in Procs :
        /\ Done(p)
        /\ req[p].kind = "batch"
        /\ Len(req[p].ops) = 2
        /\ req[p].types = <<"UPDATE_INSPECTION", "UPDATE_INSPECTION">>
        /\ req[p].ops[1].data.version = NoVersion
        /\ req[p].ops[1].data.id = "A"
        /\ Tags(results[p]) = <<"error", "success">>
        /\ effects[p].conf = << >>
        /\ Len(effects[p].ledger) = 1
        /\ Committed(p, "A").version = startInsp[p]["A"].version + 1

====
